---- MODULE Spec2Model ----
(***************************************************************************)
(* Scan orchestration pipeline of ADVRECONHOUND: the submission boundary   *)
(* (POST /api/scans), the stage sequencer performScan, the progress        *)
(* broadcaster, the target validators, the reconnaissance fan-out and the  *)
(* MITRE ATT&CK technique mapper with its local fallback.                  *)
(*                                                                         *)
(* Strings that the code inspects character by character (targets) are     *)
(* tuples of one-character strings.  Numbers that may carry a fraction     *)
(* (the inference riskScore) are kept in tenths: 25 stands for 2.5.        *)
(***************************************************************************)
EXTENDS Integers, Sequences, FiniteSets, TLC

\* ------------------------------------------------------------------ bounds
MaxClients == 1        \* websocket connections that may be registered
MaxSubdomains == 1     \* subdomains a reconnaissance may return
MaxTechnologies == 1   \* technologies a reconnaissance may return
MaxVulns == 1          \* vulnerabilities the inference may return
MaxMappings == 1       \* mappings the provider may return for one vulnerability
MaxLoopVulns == 2      \* persisted vulnerabilities the MITRE loop is followed over
MaxObservers == 2      \* websocket connections followed through broadcastUpdate
MaxPublishes == 2      \* calls of broadcastUpdate followed
MaxCalls == 3          \* calls of analyzeVulnerabilityForMitre followed

\* an optional value (null or undefined in the code) is a sequence of length
\* at most one: None when absent, Some(x) when present
None == <<>>
Some(x) == <<x>>
Null == "null"
Undefined == "undefined"

Min(a, b) == IF a < b THEN a ELSE b

\* ------------------------------------------------------- target validation
Digit == {"0", "1", "2", "3", "4", "5", "6", "7", "8", "9"}
Lower == {"a", "b", "c", "d", "e", "f", "g", "h", "i", "j", "k", "l", "m",
          "n", "o", "p", "q", "r", "s", "t", "u", "v", "w", "x", "y", "z"}
Upper == {"A", "B", "C", "D", "E", "F", "G", "H", "I", "J", "K", "L", "M",
          "N", "O", "P", "Q", "R", "S", "T", "U", "V", "W", "X", "Y", "Z"}
AlNum == Lower \cup Upper \cup Digit

\* s.split('.'): the pieces of s between dots, empty pieces included
RECURSIVE SplitDots(_, _)
SplitDots(s, cur) ==
  IF s = <<>> THEN <<cur>>
  ELSE IF Head(s) = "." THEN <<cur>> \o SplitDots(Tail(s), <<>>)
  ELSE SplitDots(Tail(s), Append(cur, Head(s)))

\* [a-zA-Z0-9]([a-zA-Z0-9-]{0,61}[a-zA-Z0-9])?
IsLabel(l) ==
  /\ Len(l) >= 1
  /\ Len(l) <= 63
  /\ l[1] \in AlNum
  /\ l[Len(l)] \in AlNum
  /\ \A i \in 1..Len(l) : l[i] \in AlNum \cup {"-"}

\* ^label(\.label)*$
domainRegex(s) ==
  LET labels == SplitDots(s, <<>>)
  IN \A i \in 1..Len(labels) : IsLabel(labels[i])

\* 25[0-5] | 2[0-4][0-9] | [01]?[0-9][0-9]?
IsOctet(o) ==
  \/ /\ Len(o) = 3
     /\ o[1] = "2"
     /\ o[2] = "5"
     /\ o[3] \in {"0", "1", "2", "3", "4", "5"}
  \/ /\ Len(o) = 3
     /\ o[1] = "2"
     /\ o[2] \in {"0", "1", "2", "3", "4"}
     /\ o[3] \in Digit
  \/ /\ Len(o) = 3
     /\ o[1] \in {"0", "1"}
     /\ o[2] \in Digit
     /\ o[3] \in Digit
  \/ /\ Len(o) \in {1, 2}
     /\ \A i \in 1..Len(o) : o[i] \in Digit

\* ^(?:octet\.){3}octet$
ipRegex(s) ==
  LET parts == SplitDots(s, <<>>)
  IN /\ Len(parts) = 4
     /\ \A i \in 1..4 : IsOctet(parts[i])

\* ReconnaissanceService.validateTarget
validateTarget(target) == domainRegex(target) \/ ipRegex(target)

\* targetSchema.target: z.string().min(1).refine(domain or ip)
targetSchema(value) ==
  /\ Len(value) >= 1
  /\ LET labels == SplitDots(value, <<>>)
         isDomain == \A i \in 1..Len(labels) : IsLabel(labels[i])
         isIp == Len(labels) = 4 /\ \A i \in 1..4 : IsOctet(labels[i])
     IN isDomain \/ isIp

\* scanRequestSchema: target min(1), scanType min(1)
scanRequestSchema(target, scanType) == Len(target) >= 1 /\ Len(scanType) >= 1

T_BadOctet == <<"2", "5", "6", ".", "1", ".", "1", ".", "1">>
T_Host == <<"a", ".", "e", "x", "a", "m", "p", "l", "e", ".", "c", "o", "m">>
T_Ip == <<"1", "0", ".", "0", ".", "0", ".", "2", "5", "5">>
T_Hyphen == <<"-", "a", ".", "c", "o", "m">>
T_Space == <<"a", " ", "b">>
T_Empty == <<>>

\* targets a client may submit to POST /api/scans
Targets == {T_Host, T_Hyphen, T_Empty}
ScanTypes == {<<>>, <<"f", "u", "l", "l">>}


\* ------------------------------------------------ MITRE fallback mapping
ToLowerChar(c) ==
  CASE c = "A" -> "a" [] c = "B" -> "b" [] c = "C" -> "c" [] c = "D" -> "d"
    [] c = "E" -> "e" [] c = "F" -> "f" [] c = "G" -> "g" [] c = "H" -> "h"
    [] c = "I" -> "i" [] c = "J" -> "j" [] c = "K" -> "k" [] c = "L" -> "l"
    [] c = "M" -> "m" [] c = "N" -> "n" [] c = "O" -> "o" [] c = "P" -> "p"
    [] c = "Q" -> "q" [] c = "R" -> "r" [] c = "S" -> "s" [] c = "T" -> "t"
    [] c = "U" -> "u" [] c = "V" -> "v" [] c = "W" -> "w" [] c = "X" -> "x"
    [] c = "Y" -> "y" [] c = "Z" -> "z" [] OTHER -> c

\* a comparison that keeps the letter case
toLowerCaseUnchanged(s) == s

\* String.prototype.toLowerCase
toLowerCase(s) == [i \in 1..Len(s) |-> ToLowerChar(s[i])]

\* String.prototype.includes
includes(s, sub) ==
  \E i \in 0..Len(s) :
    /\ i + Len(sub) <= Len(s)
    /\ \A j \in 1..Len(sub) : s[i + j] = sub[j]

K_sqlInjection == <<"s", "q", "l", " ", "i", "n", "j", "e", "c", "t", "i", "o", "n">>
K_xss == <<"x", "s", "s">>
K_rce == <<"r", "c", "e">>
K_privEsc == <<"p", "r", "i", "v", "i", "l", "e", "g", "e", " ",
               "e", "s", "c", "a", "l", "a", "t", "i", "o", "n">>
K_service == <<"s", "e", "r", "v", "i", "c", "e">>
K_port == <<"p", "o", "r", "t">>

\* a severity table without the entry for low
getSeverityScoreWithoutLow(severity) ==
  LET s == toLowerCase(severity)
  IN CASE s = <<"c", "r", "i", "t", "i", "c", "a", "l">> -> 95
       [] s = <<"h", "i", "g", "h">> -> 80
       [] s = <<"m", "e", "d", "i", "u", "m">> -> 60
       [] OTHER -> 50

\* MitreAttackService.getSeverityScore
getSeverityScore(severity) ==
  LET s == toLowerCase(severity)
  IN CASE s = <<"c", "r", "i", "t", "i", "c", "a", "l">> -> 95
       [] s = <<"h", "i", "g", "h">> -> 80
       [] s = <<"m", "e", "d", "i", "u", "m">> -> 60
       [] s = <<"l", "o", "w">> -> 30
       [] OTHER -> 50

\* a fallback whose confidence is derived from the id of the vulnerability
getFallbackMappingKeyedById(vulnerability) ==
  [vulnerabilityId |-> vulnerability.id,
   mappings |-> <<[techniqueId |-> "T1190", confidence |-> 85 - vulnerability.id]>>,
   attackPath |-> <<"T1190">>,
   riskAssessment |-> [likelihood |-> 400, impact |-> 500, overall |-> 450]]

\* MitreAttackService.getFallbackMapping; the risk assessment is in tenths
getFallbackMapping(vulnerability) ==
  LET vulnType == toLowerCase(vulnerability.type)
      r1 == IF \/ includes(vulnType, K_sqlInjection)
               \/ includes(vulnType, K_xss)
               \/ includes(vulnType, K_rce)
            THEN <<[techniqueId |-> "T1190", confidence |-> 85]>> ELSE <<>>
      r2 == IF includes(vulnType, K_privEsc)
            THEN <<[techniqueId |-> "T1068", confidence |-> 80]>> ELSE <<>>
      r3 == IF includes(vulnType, K_service) \/ includes(vulnType, K_port)
            THEN <<[techniqueId |-> "T1021", confidence |-> 70]>> ELSE <<>>
      mappings == r1 \o r2 \o r3
      severityScore == getSeverityScore(vulnerability.severity)
  IN [vulnerabilityId |-> vulnerability.id,
      mappings |-> mappings,
      attackPath |-> [i \in 1..Len(mappings) |-> mappings[i].techniqueId],
      riskAssessment |-> [likelihood |-> severityScore * 8,
                          impact |-> severityScore * 10,
                          overall |-> severityScore * 9]]


\* ------------------------------------------------------ pipeline: the state
VARIABLES
  scans,              \* storage: the scans table, id -> row
  subdomainRows,      \* storage: the subdomains table
  technologyRows,     \* storage: the technologies table
  vulnerabilityRows,  \* storage: the vulnerabilities table
  mappingRows,        \* storage: the vulnerability_mitre_mapping table
  clients,            \* the Map clientId -> WebSocket, in insertion order
  proc,               \* per scan: the position and locals of performScan
  events,             \* per scan: the broadcast calls made, in order
  numRequests,        \* POST /api/scans requests served so far
  lastResponse,       \* HTTP status of the last POST /api/scans
  input,              \* validators: the string under validation
  serverVerdict,      \* validators: the answer of ReconnaissanceService.validateTarget
  clientVerdict,      \* validators: the answer of the client's validateTarget
  rTarget,            \* fan-out: the target of performReconnaissance
  rpc,                \* fan-out: the position of performReconnaissance
  probe,              \* fan-out: the promise of each probe
  results,            \* fan-out: the ReconResults under assembly
  calls,              \* mapper: the calls of analyzeVulnerabilityForMitre made, in order
  mType,              \* mapper: the type of the vulnerability under study
  mSeverity,          \* mapper: the severity of the vulnerability under study
  received,           \* broadcaster: per socket, the sends of the latest broadcastUpdate
  published,          \* broadcaster: the latest call of broadcastUpdate, if any
  inbox,              \* broadcaster: per socket, the calls made before it registered
                      \* and the messages sent to it since, in order
  dnsAnswers,         \* DNS collection: what the resolver answers for each record kind
  dnsReturned,        \* DNS collection: the list getDNSRecords returned, if it has
  reportMappings,     \* MITRE report: the analysis results handed to generateMitreAttackReport
  report,             \* MITRE report: the tactic sections of the report, once generated
  mounted,            \* useWebSocket: whether the effect has run and whether its cleanup has
  sockets,            \* useWebSocket: the readyState of every WebSocket created, in order
  reconnectTimers,    \* useWebSocket: the pending setTimeout(connect, 3000) timers
  isConnected,        \* useWebSocket: the isConnected state of the hook
  lastMessage         \* useWebSocket: the lastMessage state of the hook

pipelineVars == <<scans, subdomainRows, technologyRows, vulnerabilityRows, mappingRows,
                  clients, proc, events, numRequests, lastResponse>>
validationVars == <<input, serverVerdict, clientVerdict>>
reconVars == <<rTarget, rpc, probe, results>>
mapperVars == <<calls, mType, mSeverity>>
publishVars == <<received, published, inbox>>
dnsVars == <<dnsAnswers, dnsReturned>>
reportVars == <<reportMappings, report>>
hookVars == <<mounted, sockets, reconnectTimers, isConnected, lastMessage>>
vars == <<pipelineVars, validationVars, reconVars, mapperVars, publishVars, dnsVars, reportVars, hookVars>>

storageVars == <<scans, subdomainRows, technologyRows, vulnerabilityRows, mappingRows>>

\* The pipeline is explored for one submitted scan: performScan reads and
\* writes only rows keyed by its own scanId.
ScanIds == {1}
ClientIds == 1..MaxClients

\* the inference riskScore, in tenths; None when the answer lacks the field
RiskScores == {Some(24), Some(25), None}

V_Xss == [severity |-> <<"h", "i", "g", "h">>, type |-> <<"X", "S", "S">>]
VulnSamples == {V_Xss}

\* technique ids the provider may answer with
AiTechniques == {"T1059"}

SeqsUpTo(S, n) == UNION {[1..k -> S] : k \in 0..n}

\* Math.floor in the place of Math.round
MathRoundFloor(x) == [k \in 1..Len(x) |-> (x[k] \div 10) * 10]

\* Math.round of an optional number in tenths: the nearest integer, halves
\* upwards; Math.round(undefined) is NaN, which is no number: None
MathRound(x) == [k \in 1..Len(x) |-> ((x[k] + 5) \div 10) * 10]
NaN == None

\* the checkpoints with the technology stage announced below the subdomain
\* stage
CheckpointMisordered(stage) ==
  CASE stage = "running" -> 0
    [] stage = "recon" -> 25
    [] stage = "subdomains" -> 50
    [] stage = "technologies" -> 45
    [] stage = "analyze" -> 80
    [] stage = "mitre" -> 90
    [] stage = "completed" -> 100

\* the progress checkpoint broadcast when a stage is entered
Checkpoint(stage) ==
  CASE stage = "running" -> 0
    [] stage = "recon" -> 25
    [] stage = "subdomains" -> 50
    [] stage = "technologies" -> 65
    [] stage = "analyze" -> 80
    [] stage = "mitre" -> 90
    [] stage = "completed" -> 100

\* a broadcast call: the update object passed, and whether the call raised
Ev(status, progress, message, riskScore) ==
  [status |-> status, progress |-> progress, message |-> message, riskScore |-> riskScore,
   raised |-> FALSE]

\* createScan: the row inserted for an accepted request
NewScan(target, scanType) ==
  [target |-> target, scanType |-> scanType, status |-> "pending", progress |-> 0,
   riskScore |-> None, results |-> None, completedAt |-> Null]

NewProc(target) ==
  [pc |-> "updateRunning", target |-> target, reconResults |-> None,
   vulnerabilityAnalysis |-> None, vulnerabilities |-> <<>>,
   i |-> 0, j |-> 0, mappings |-> <<>>, error |-> Undefined,
   attempted |-> <<>>, failedMappings |-> {}]

\* the five probes of performReconnaissance, in the order of its array
Probes == <<"subdomains", "openPorts", "dnsRecords", "webInfo", "whoisData">>
ProbeNames == {Probes[k] : k \in 1..Len(Probes)}

\* the server after registerRoutes: empty tables, no client, no request
PipelineInit ==
  /\ scans = <<>>
  /\ subdomainRows = <<>>
  /\ technologyRows = <<>>
  /\ vulnerabilityRows = <<>>
  /\ mappingRows = <<>>
  /\ clients = <<>>
  /\ proc = <<>>
  /\ events = <<>>
  /\ numRequests = 0
  /\ lastResponse = 0

\* no validation under way
ValidationIdle ==
  /\ input = <<>>
  /\ serverVerdict = None
  /\ clientVerdict = None

\* no performReconnaissance under way
ReconIdle ==
  /\ rTarget = <<>>
  /\ rpc = "idle"
  /\ probe = [p \in ProbeNames |-> [status |-> "idle", value |-> None]]
  /\ results = None

\* no call of analyzeVulnerabilityForMitre under study
MapperIdle ==
  /\ calls = <<>>
  /\ mType = <<>>
  /\ mSeverity = <<>>

ObserverIds == 1..MaxObservers

\* no call of broadcastUpdate made yet
PublishIdle ==
  /\ received = [c \in ObserverIds |-> <<>>]
  /\ published = <<>>
  /\ inbox = [c \in ObserverIds |-> [since |-> 0, log |-> <<>>]]

\* the number of calls of broadcastUpdate made, and the sockets that were
\* OPEN at the latest one
NumPublished == IF published = <<>> THEN 0 ELSE published[1].n
LastOpen == IF published = <<>> THEN {} ELSE published[1].open

\* a connection handler that sends the new socket every message published so far
connectionReplays(n) == [k \in 1..n |-> k]

\* wss.on('connection', (ws) => { ... }): the handler registers the socket and
\* its 'close' and 'message' listeners; it sends the socket nothing, whatever
\* the number n of messages published before
connection(n) == <<>>

\* no getDNSRecords call under study
DnsIdle ==
  /\ dnsAnswers = <<>>
  /\ dnsReturned = None

\* no generateMitreAttackReport call under study
ReportIdle ==
  /\ reportMappings = <<>>
  /\ report = None

\* no useWebSocket hook under study
HookIdle ==
  /\ mounted = "no"
  /\ sockets = <<>>
  /\ reconnectTimers = 0
  /\ isConnected = FALSE
  /\ lastMessage = Null

Init ==
  /\ PipelineInit
  /\ ValidationIdle
  /\ ReconIdle
  /\ MapperIdle
  /\ PublishIdle
  /\ DnsIdle
  /\ ReportIdle
  /\ HookIdle

\* ----------------------------------------------------- progress broadcaster
\* clients is the Map clientId -> WebSocket in insertion order: a sequence of
\* entries [id, readyState]
Registered == {clients[k].id : k \in 1..Len(clients)}

\* client.send is reached only for a client whose readyState is OPEN
CanSendThrow == \E k \in 1..Len(clients) : clients[k].readyState = "OPEN"

\* wss.on('connection'): the new socket is registered
Connect(c) ==
  /\ c \notin Registered
  /\ UNCHANGED <<validationVars, reconVars, mapperVars, publishVars, dnsVars, reportVars, hookVars>>
  /\ clients' = Append(clients, [id |-> c, readyState |-> "OPEN"])
  /\ UNCHANGED <<storageVars, proc, events, numRequests, lastResponse>>

\* the socket leaves OPEN before its 'close' event is dispatched
SocketClosed(c) ==
  /\ UNCHANGED <<validationVars, reconVars, mapperVars, publishVars, dnsVars, reportVars, hookVars>>
  /\ \E k \in 1..Len(clients) :
       /\ clients[k].id = c
       /\ clients[k].readyState = "OPEN"
       /\ clients' = [clients EXCEPT ![k].readyState = "CLOSED"]
  /\ UNCHANGED <<storageVars, proc, events, numRequests, lastResponse>>

\* ws.on('close'): clients.delete(clientId)
CloseHandler(c) ==
  /\ UNCHANGED <<validationVars, reconVars, mapperVars, publishVars, dnsVars, reportVars, hookVars>>
  /\ \E k \in 1..Len(clients) :
       /\ clients[k].id = c
       /\ clients[k].readyState = "CLOSED"
  /\ LET Other(e) == e.id # c
     IN clients' = SelectSeq(clients, Other)
  /\ UNCHANGED <<storageVars, proc, events, numRequests, lastResponse>>

\* the catch block of performScan is entered with this error
\* (the loop locals of the try block are out of scope there; attempted and
\* failedMappings are the history of the MITRE loop and stay)
Catch(p, msg) ==
  [NewProc(p.target) EXCEPT !.pc = "catch", !.error = msg,
                            !.vulnerabilityAnalysis = p.vulnerabilityAnalysis,
                            !.attempted = p.attempted,
                            !.failedMappings = p.failedMappings]

\* The broadcast calls evs are made in order.  k of them return; when k is
\* less than their number, call k+1 raises out of client.send and performScan
\* goes where onThrow says, otherwise it goes on as next.
Broadcast(id, evs, next, onThrow) ==
  \E k \in 0..Len(evs) :
    /\ k < Len(evs) => CanSendThrow
    /\ events' = [events EXCEPT ![id] =
                    @ \o [n \in 1..Min(k + 1, Len(evs)) |->
                            [evs[n] EXCEPT !.raised = (n = k + 1)]]]
    /\ proc' = [proc EXCEPT ![id] = IF k = Len(evs) THEN next ELSE onThrow]


\* ------------------------------------------------------ submission boundary
\* app.post("/api/scans"): parse, createScan, respond, start performScan,
\* which runs up to its first await
PostScan(target, scanType) ==
  /\ numRequests < Cardinality(ScanIds)
  /\ UNCHANGED <<validationVars, reconVars, mapperVars, publishVars, dnsVars, reportVars, hookVars>>
  /\ numRequests' = numRequests + 1
  /\ UNCHANGED <<subdomainRows, technologyRows, vulnerabilityRows, mappingRows, clients>>
  /\ IF ~scanRequestSchema(target, scanType)
     THEN /\ lastResponse' = 400
          /\ UNCHANGED <<scans, proc, events>>
     ELSE \/ /\ lastResponse' = 500           \* createScan raises
             /\ UNCHANGED <<scans, proc, events>>
          \/ /\ lastResponse' = 200
             /\ scans' = Append(scans, NewScan(target, scanType))
             /\ proc' = Append(proc, NewProc(target))
             /\ events' = Append(events, <<>>)

\* ------------------------------------------------------------- performScan
\* The answers of the probes, of the inference and of the mapping provider
\* are drawn from the sample sets below.  While more than one scan is in
\* flight each scan draws from one sample per set (and three provider
\* outcomes), which keeps every interleaving of their steps explorable.
Concurrent == Len(scans) > 1

SubdomainCounts == IF Concurrent THEN {1} ELSE 0..MaxSubdomains
TechnologyCounts == IF Concurrent THEN {1} ELSE 0..MaxTechnologies
RiskChoices == IF Concurrent THEN {Some(25)} ELSE RiskScores
VulnLists == IF Concurrent THEN {<<V_Xss>>} ELSE SeqsUpTo(VulnSamples, MaxVulns)

At(id, pc) == id \in DOMAIN proc /\ proc[id].pc = pc

\* await storage.updateScan(scanId, {status: 'running', progress: 0}), then
\* the broadcasts of progress 0 and 25 and the call of performReconnaissance
UpdateRunning(id) ==
  /\ At(id, "updateRunning")
  /\ UNCHANGED <<validationVars, reconVars, mapperVars, publishVars, dnsVars, reportVars, hookVars>>
  /\ UNCHANGED <<subdomainRows, technologyRows, vulnerabilityRows, mappingRows,
                 clients, numRequests, lastResponse>>
  /\ \/ /\ proc' = [proc EXCEPT ![id] = Catch(@, "storage")]
        /\ UNCHANGED <<scans, events>>
     \/ /\ scans' = [scans EXCEPT ![id].status = "running", ![id].progress = 0]
        /\ Broadcast(id,
             <<Ev("running", Some(Checkpoint("running")), Undefined, None),
               Ev("running", Some(Checkpoint("recon")), "Starting reconnaissance...", None)>>,
             [proc[id] EXCEPT !.pc = "recon"],
             Catch(proc[id], "send"))

\* await reconService.performReconnaissance(target), then the broadcast of
\* progress 50
Recon(id) ==
  /\ At(id, "recon")
  /\ UNCHANGED <<validationVars, reconVars, mapperVars, publishVars, dnsVars, reportVars, hookVars>>
  /\ UNCHANGED <<storageVars, clients, numRequests, lastResponse>>
  /\ IF ~validateTarget(proc[id].target)
     THEN /\ proc' = [proc EXCEPT ![id] = Catch(@, "Invalid target format")]
          /\ UNCHANGED events
     ELSE \E ns \in SubdomainCounts, nt \in TechnologyCounts :
            LET p == [proc[id] EXCEPT
                        !.reconResults = Some([subdomains |-> [k \in 1..ns |-> k],
                                               technologies |-> [k \in 1..nt |-> k]])]
            IN Broadcast(id,
                 <<Ev("running", Some(Checkpoint("subdomains")), "Analyzing subdomains...", None)>>,
                 [p EXCEPT !.pc = "subdomains", !.i = 0],
                 Catch(p, "send"))

\* for (const subdomain of reconResults.subdomains) await createSubdomain;
\* after the loop the broadcast of progress 65
StoreSubdomain(id) ==
  /\ At(id, "subdomains")
  /\ UNCHANGED <<validationVars, reconVars, mapperVars, publishVars, dnsVars, reportVars, hookVars>>
  /\ UNCHANGED <<scans, technologyRows, vulnerabilityRows, mappingRows,
                 clients, numRequests, lastResponse>>
  /\ LET p == proc[id]
         subs == p.reconResults[1].subdomains
     IN IF p.i < Len(subs)
        THEN \/ /\ proc' = [proc EXCEPT ![id] = Catch(@, "storage")]
                /\ UNCHANGED <<subdomainRows, events>>
             \/ /\ subdomainRows' = Append(subdomainRows,
                                       [scanId |-> id, subdomain |-> subs[p.i + 1]])
                /\ proc' = [proc EXCEPT ![id].i = @ + 1]
                /\ UNCHANGED events
        ELSE /\ UNCHANGED subdomainRows
             /\ Broadcast(id,
                  <<Ev("running", Some(Checkpoint("technologies")), "Identifying technologies...", None)>>,
                  [p EXCEPT !.pc = "technologies", !.i = 0],
                  Catch(p, "send"))

\* for (const tech of reconResults.technologies) await createTechnology;
\* after the loop the broadcast of progress 80 and the call of
\* analyzeVulnerabilities
StoreTechnology(id) ==
  /\ At(id, "technologies")
  /\ UNCHANGED <<validationVars, reconVars, mapperVars, publishVars, dnsVars, reportVars, hookVars>>
  /\ UNCHANGED <<scans, subdomainRows, vulnerabilityRows, mappingRows,
                 clients, numRequests, lastResponse>>
  /\ LET p == proc[id]
         techs == p.reconResults[1].technologies
     IN IF p.i < Len(techs)
        THEN \/ /\ proc' = [proc EXCEPT ![id] = Catch(@, "storage")]
                /\ UNCHANGED <<technologyRows, events>>
             \/ /\ technologyRows' = Append(technologyRows,
                                        [scanId |-> id, name |-> techs[p.i + 1]])
                /\ proc' = [proc EXCEPT ![id].i = @ + 1]
                /\ UNCHANGED events
        ELSE /\ UNCHANGED technologyRows
             /\ Broadcast(id,
                  <<Ev("running", Some(Checkpoint("analyze")), "Analyzing vulnerabilities with AI...", None)>>,
                  [p EXCEPT !.pc = "analyze", !.i = 0],
                  Catch(p, "send"))


\* await analyzeVulnerabilities(target, reconResults): the provider call or
\* JSON.parse raises, or the parsed answer is returned as it is
Analyze(id) ==
  /\ At(id, "analyze")
  /\ UNCHANGED <<validationVars, reconVars, mapperVars, publishVars, dnsVars, reportVars, hookVars>>
  /\ UNCHANGED <<storageVars, clients, numRequests, lastResponse, events>>
  /\ \/ proc' = [proc EXCEPT ![id] = Catch(@, "Failed to analyze vulnerabilities with AI")]
     \/ \E rs \in RiskChoices, vs \in VulnLists :
          proc' = [proc EXCEPT ![id].vulnerabilityAnalysis =
                                   Some([riskScore |-> rs, vulnerabilities |-> Some(vs)]),
                               ![id].pc = "vulnerabilities",
                               ![id].i = 0]
     \/ \E rs \in RiskChoices :   \* the answer has no vulnerabilities array
          proc' = [proc EXCEPT ![id] =
                     Catch([@ EXCEPT !.vulnerabilityAnalysis =
                                        Some([riskScore |-> rs, vulnerabilities |-> None])],
                           "vulnerabilities is not iterable")]

\* for (const vuln of vulnerabilityAnalysis.vulnerabilities) await
\* createVulnerability; after the loop the broadcast of progress 90
StoreVulnerability(id) ==
  /\ At(id, "vulnerabilities")
  /\ UNCHANGED <<validationVars, reconVars, mapperVars, publishVars, dnsVars, reportVars, hookVars>>
  /\ UNCHANGED <<scans, subdomainRows, technologyRows, mappingRows,
                 clients, numRequests, lastResponse>>
  /\ LET p == proc[id]
         vs == p.vulnerabilityAnalysis[1].vulnerabilities[1]
     IN IF p.i < Len(vs)
        THEN \/ /\ proc' = [proc EXCEPT ![id] = Catch(@, "storage")]
                /\ UNCHANGED <<vulnerabilityRows, events>>
             \/ /\ vulnerabilityRows' = Append(vulnerabilityRows,
                     [id |-> Len(vulnerabilityRows) + 1, scanId |-> id,
                      severity |-> vs[p.i + 1].severity, type |-> vs[p.i + 1].type])
                /\ proc' = [proc EXCEPT ![id].i = @ + 1]
                /\ UNCHANGED events
        ELSE /\ UNCHANGED vulnerabilityRows
             /\ Broadcast(id,
                  <<Ev("running", Some(Checkpoint("mitre")), "Mapping to MITRE ATT&CK framework...", None)>>,
                  [p EXCEPT !.pc = "getVulnerabilities", !.i = 0],
                  Catch(p, "send"))

\* a query without its where clause
getVulnerabilitiesOfAllScans(scanId) == vulnerabilityRows

\* a query that selects the rows of the other scans
getVulnerabilitiesByOtherScan(scanId) ==
  LET NotOfScan(v) == v.scanId # scanId
  IN SelectSeq(vulnerabilityRows, NotOfScan)

\* DatabaseStorage.getVulnerabilitiesByScan
getVulnerabilitiesByScan(scanId) ==
  LET OfScan(v) == v.scanId = scanId
  IN SelectSeq(vulnerabilityRows, OfScan)

\* the MITRE loop goes on to its next vulnerability, or past its end to the
\* final updateScan
AfterVulnerability(p) ==
  IF p.i + 1 < Len(p.vulnerabilities)
  THEN [p EXCEPT !.pc = "mitreAnalyze", !.i = @ + 1, !.j = 0, !.mappings = <<>>]
  ELSE [p EXCEPT !.pc = "updateCompleted", !.i = 0, !.j = 0, !.mappings = <<>>]

\* const vulnerabilities = await storage.getVulnerabilitiesByScan(scanId)
GetVulnerabilities(id) ==
  /\ At(id, "getVulnerabilities")
  /\ UNCHANGED <<validationVars, reconVars, mapperVars, publishVars, dnsVars, reportVars, hookVars>>
  /\ UNCHANGED <<storageVars, clients, numRequests, lastResponse, events>>
  /\ \/ proc' = [proc EXCEPT ![id] = Catch(@, "storage")]
     \/ LET vs == getVulnerabilitiesByScan(id)
        IN proc' = [proc EXCEPT ![id] =
                      IF vs = <<>>
                      THEN [@ EXCEPT !.pc = "updateCompleted"]
                      ELSE [@ EXCEPT !.pc = "mitreAnalyze", !.vulnerabilities = vs, !.i = 0]]

AiMappings == {[techniqueId |-> t, confidence |-> 60] : t \in AiTechniques}

\* a riskAssessment of the provider, in tenths
AiRisk == [likelihood |-> 500, impact |-> 500, overall |-> 500]

\* a parsed answer that has the three fields of the response schema
AiAnswer(m) ==
  [mappings |-> Some(m),
   attackPath |-> Some([k \in 1..Len(m) |-> m[k].techniqueId]),
   riskAssessment |-> Some(AiRisk)]

\* parsed answers that lack fields: "{}", and one without mappings only
A_Empty == [mappings |-> None, attackPath |-> None, riskAssessment |-> None]
A_NoMappings == [mappings |-> None, attackPath |-> Some(<<>>), riskAssessment |-> Some(AiRisk)]

\* what ai.models.generateContent and JSON.parse(response.text) can give:
\* the call rejects (error, timeout), the text is no JSON, or a parsed value
ProviderOutcomes ==
  {[kind |-> "error", answer |-> A_Empty], [kind |-> "unparseable", answer |-> A_Empty]}
    \cup {[kind |-> "parsed", answer |-> a] :
            a \in {AiAnswer(m) : m \in SeqsUpTo(AiMappings, MaxMappings)}
                    \cup {A_Empty, A_NoMappings}}

\* the outcomes drawn while several scans are in flight: the call rejects, a
\* full answer with one mapping, an answer without fields
ProviderChoices ==
  IF Concurrent
  THEN {o \in ProviderOutcomes :
          \/ o.kind = "error"
          \/ o.kind = "parsed" /\ o.answer = A_Empty
          \/ o.kind = "parsed" /\ o.answer.mappings # None /\ Len(o.answer.mappings[1]) = 1}
  ELSE ProviderOutcomes

\* MitreAttackService.analyzeVulnerabilityForMitre: the fields of the parsed
\* answer as they are, or the fallback mapping when the call or JSON.parse
\* raised.  A field the parsed answer lacks is None.
analyzeVulnerabilityForMitre(vulnerability, outcome) ==
  IF outcome.kind = "parsed"
  THEN [vulnerabilityId |-> vulnerability.id,
        mappings |-> outcome.answer.mappings,
        attackPath |-> outcome.answer.attackPath,
        riskAssessment |-> outcome.answer.riskAssessment]
  ELSE LET f == getFallbackMapping(vulnerability)
       IN [vulnerabilityId |-> f.vulnerabilityId,
           mappings |-> Some(f.mappings),
           attackPath |-> Some(f.attackPath),
           riskAssessment |-> Some(f.riskAssessment)]

\* the MITRE loop without its inner try/catch: the error reaches the catch
\* block of performScan
MappingFailedAborts(p) == Catch(p, "mitre")

\* catch (error) { console.error('MITRE ATT&CK analysis failed ...') }: the
\* loop goes on with the next vulnerability
MappingFailed(p) ==
  AfterVulnerability([p EXCEPT !.failedMappings = @ \cup {p.vulnerabilities[p.i + 1].id}])

\* try { await analyzeVulnerabilityForMitre(vulnerability); for (const mapping
\* of mitreAnalysis.mappings) ... }: iterating mappings raises when the field
\* is missing
MitreAnalyze(id) ==
  /\ At(id, "mitreAnalyze")
  /\ UNCHANGED <<validationVars, reconVars, mapperVars, publishVars, dnsVars, reportVars, hookVars>>
  /\ UNCHANGED <<storageVars, clients, numRequests, lastResponse, events>>
  /\ \E o \in ProviderChoices :
       LET vulnerability == proc[id].vulnerabilities[proc[id].i + 1]
           p == [proc[id] EXCEPT !.attempted = Append(@, vulnerability.id)]
           mitreAnalysis == analyzeVulnerabilityForMitre(vulnerability, o)
       IN proc' = [proc EXCEPT ![id] =
                     IF mitreAnalysis.mappings = None THEN MappingFailed(p)
                     ELSE IF mitreAnalysis.mappings[1] = <<>> THEN AfterVulnerability(p)
                     ELSE [p EXCEPT !.pc = "mitreStore",
                                    !.mappings = mitreAnalysis.mappings[1], !.j = 0]]

\* await storage.createVulnerabilityMitreMapping(...) inside the inner try
MitreStore(id) ==
  /\ At(id, "mitreStore")
  /\ UNCHANGED <<validationVars, reconVars, mapperVars, publishVars, dnsVars, reportVars, hookVars>>
  /\ UNCHANGED <<scans, subdomainRows, technologyRows, vulnerabilityRows,
                 clients, numRequests, lastResponse, events>>
  /\ LET p == proc[id]
         mapping == p.mappings[p.j + 1]
     IN \/ /\ proc' = [proc EXCEPT ![id] = MappingFailed(p)]
           /\ UNCHANGED mappingRows
        \/ /\ mappingRows' = Append(mappingRows,
                [vulnerabilityId |-> p.vulnerabilities[p.i + 1].id,
                 techniqueId |-> mapping.techniqueId,
                 confidence |-> mapping.confidence])
           /\ proc' = [proc EXCEPT ![id] =
                         IF p.j + 1 < Len(p.mappings)
                         THEN [p EXCEPT !.j = @ + 1]
                         ELSE AfterVulnerability(p)]

\* a final updateScan that leaves completedAt out
CompletedUpdateWithoutTimestamp(scan, p) ==
  [scan EXCEPT !.status = "completed",
               !.progress = Checkpoint("completed"),
               !.riskScore = MathRound(p.vulnerabilityAnalysis[1].riskScore),
               !.results = p.reconResults]

\* the row written by the final updateScan
CompletedUpdate(scan, p) ==
  [scan EXCEPT !.status = "completed",
               !.progress = Checkpoint("completed"),
               !.riskScore = MathRound(p.vulnerabilityAnalysis[1].riskScore),
               !.results = p.reconResults,
               !.completedAt = "date"]

\* await storage.updateScan(scanId, {status: 'completed', ...}), then the
\* broadcast of the completed event.  risk_score is an integer column: the
\* update raises when Math.round gave NaN.
UpdateCompleted(id) ==
  /\ At(id, "updateCompleted")
  /\ UNCHANGED <<validationVars, reconVars, mapperVars, publishVars, dnsVars, reportVars, hookVars>>
  /\ UNCHANGED <<subdomainRows, technologyRows, vulnerabilityRows, mappingRows,
                 clients, numRequests, lastResponse>>
  /\ LET p == proc[id]
     IN \/ /\ proc' = [proc EXCEPT ![id] = Catch(@, "storage")]
           /\ UNCHANGED <<scans, events>>
        \/ /\ MathRound(p.vulnerabilityAnalysis[1].riskScore) # NaN
           /\ scans' = [scans EXCEPT ![id] = CompletedUpdate(@, p)]
           /\ Broadcast(id,
                <<Ev("completed", Some(Checkpoint("completed")), "Scan completed successfully",
                     p.vulnerabilityAnalysis[1].riskScore)>>,
                [p EXCEPT !.pc = "done"],
                Catch(p, "send"))

\* a catch block whose updateScan sets the timestamp only
FailedUpdateKeepsStatus(scan) == [scan EXCEPT !.completedAt = "date"]

\* the row written by the catch block's updateScan
FailedUpdate(scan) == [scan EXCEPT !.status = "failed", !.completedAt = "date"]

\* catch (error): await storage.updateScan(scanId, {status: 'failed',
\* completedAt}), then the broadcast of the failed event.  An error raised
\* here leaves performScan as a rejected promise.
CatchUpdate(id) ==
  /\ At(id, "catch")
  /\ UNCHANGED <<validationVars, reconVars, mapperVars, publishVars, dnsVars, reportVars, hookVars>>
  /\ UNCHANGED <<subdomainRows, technologyRows, vulnerabilityRows, mappingRows,
                 clients, numRequests, lastResponse>>
  /\ LET p == proc[id]
     IN \/ /\ proc' = [proc EXCEPT ![id].pc = "rejected"]
           /\ UNCHANGED <<scans, events>>
        \/ /\ scans' = [scans EXCEPT ![id] = FailedUpdate(@)]
           /\ Broadcast(id,
                <<Ev("failed", None, p.error, None)>>,
                [p EXCEPT !.pc = "done"],
                [p EXCEPT !.pc = "rejected"])

Next ==
  \/ \E t \in Targets, st \in ScanTypes : PostScan(t, st)
  \/ \E c \in ClientIds : Connect(c)
  \/ \E c \in ClientIds : SocketClosed(c)
  \/ \E c \in ClientIds : CloseHandler(c)
  \/ \E id \in ScanIds : UpdateRunning(id)
  \/ \E id \in ScanIds : Recon(id)
  \/ \E id \in ScanIds : StoreSubdomain(id)
  \/ \E id \in ScanIds : StoreTechnology(id)
  \/ \E id \in ScanIds : Analyze(id)
  \/ \E id \in ScanIds : StoreVulnerability(id)
  \/ \E id \in ScanIds : GetVulnerabilities(id)
  \/ \E id \in ScanIds : MitreAnalyze(id)
  \/ \E id \in ScanIds : MitreStore(id)
  \/ \E id \in ScanIds : UpdateCompleted(id)
  \/ \E id \in ScanIds : CatchUpdate(id)

Spec == Init /\ [][Next]_vars


\* ------------------------------------------------- properties of performScan
Terminal == {"completed", "failed"}

\* performScan has returned or has been left by an error
Finished(id) == id \in DOMAIN proc /\ proc[id].pc \in {"done", "rejected"}

\* the error that took performScan to its catch block, if any
Raised(id) == id \in DOMAIN proc /\ proc[id].error # Undefined

\* the progress of the last event that carries one and whose broadcast
\* returned; 0 before any
LastCheckpoint(evs) ==
  LET withProgress == {i \in 1..Len(evs) : evs[i].progress # None /\ ~evs[i].raised}
  IN IF withProgress = {} THEN 0
     ELSE evs[CHOOSE i \in withProgress : \A k \in withProgress : k <= i].progress[1]

\* C1: the stored status of a scan changes only pending->running,
\* running->completed or running->failed, and never after completed or
\* failed, whatever call of performScan raises.
C1_StatusTransitions ==
  [][\A id \in DOMAIN scans :
       \/ scans'[id].status = scans[id].status
       \/ <<scans[id].status, scans'[id].status>> \in
            {<<"pending", "running">>, <<"running", "completed">>, <<"running", "failed">>}]_vars

\* C2: in the events broadcast for one scan no event carries a progress
\* lower than an earlier event's, on the success path and on failure paths.
C2_ProgressMonotone ==
  \A id \in DOMAIN events :
    \A a, b \in 1..Len(events[id]) :
      (a < b /\ events[id][a].progress # None /\ events[id][b].progress # None)
        => events[id][a].progress[1] <= events[id][b].progress[1]

\* a scan that failed after its technology stage had been announced
C2_Witness ==
  \E id \in DOMAIN events :
    /\ Len(events[id]) >= 5
    /\ events[id][Len(events[id])].status = "failed"
    /\ \E a \in 1..Len(events[id]) : events[id][a].progress = Some(65)

\* C3: performScan broadcasts exactly one event with status completed or
\* failed, and it is the last event of the scan.
C3_OneTerminalEventLast ==
  \A id \in DOMAIN events :
    /\ \A a \in 1..Len(events[id]) :
         events[id][a].status \in Terminal => a = Len(events[id])
    /\ Finished(id) =>
         /\ Len(events[id]) >= 1
         /\ events[id][Len(events[id])].status \in Terminal

\* C4: no ScanRecord is created for a target that the hostname/IPv4
\* validator rejects; such a request is answered with a rejection.
C4_NoScanForInvalidTarget ==
  \A id \in DOMAIN scans : validateTarget(scans[id].target)

\* C8: when a stage of performScan raises and its catch block has run, the
\* stored record is failed, with a completion timestamp and with the progress
\* of the last checkpoint broadcast before the error.
C8_FailedKeepsCheckpoint ==
  \A id \in DOMAIN scans :
    (At(id, "done") /\ Raised(id)) =>
      /\ scans[id].status = "failed"
      /\ scans[id].completedAt # Null
      /\ scans[id].progress = LastCheckpoint(events[id])

\* C9: while a scan runs, its stored progress is the progress of the most
\* recent event broadcast for it.
C9_StoredProgressIsLastEvent ==
  \A id \in DOMAIN scans :
    (scans[id].status = "running" /\ Len(events[id]) >= 1)
      => scans[id].progress = LastCheckpoint(events[id])

\* C10: a scan stored as completed has progress 100, a completion timestamp
\* and an integer riskScore that is the inference's riskScore rounded to the
\* nearest integer (numbers in tenths).
C10_CompletedRecord ==
  \A id \in DOMAIN scans :
    scans[id].status = "completed" =>
      /\ scans[id].progress = 100
      /\ scans[id].completedAt # Null
      /\ Len(scans[id].riskScore) = 1
      /\ scans[id].riskScore[1] % 10 = 0
      /\ \E x \in {proc[id].vulnerabilityAnalysis[1].riskScore} :
           /\ Len(x) = 1
           /\ x[1] - 5 < scans[id].riskScore[1]
           /\ scans[id].riskScore[1] <= x[1] + 5

\* a completed scan whose inference riskScore was 2.5
C10_Witness ==
  \E id \in DOMAIN scans :
    /\ scans[id].status = "completed"
    /\ proc[id].vulnerabilityAnalysis[1].riskScore = Some(25)

\* analyzeVulnerabilities rejected, or it returned a value without a
\* vulnerabilities array (response.text empty) and iterating it raised
InferenceFailed(id) ==
  /\ id \in DOMAIN proc
  /\ proc[id].error \in {"Failed to analyze vulnerabilities with AI",
                         "vulnerabilities is not iterable"}

MaxTargetLen == 3

TargetAlphabet == {"a", "1", "-", "."}

\* the strings handed to the validators: the named examples and every string
\* over TargetAlphabet of length at most MaxTargetLen
ValidationInputs ==
  {T_BadOctet, T_Host, T_Ip, T_Hyphen, T_Space, T_Empty}
    \cup UNION {[1..k -> TargetAlphabet] : k \in 0..MaxTargetLen}

InitValidate ==
  /\ PipelineInit
  /\ ReconIdle
  /\ MapperIdle
  /\ PublishIdle
  /\ DnsIdle
  /\ ReportIdle
  /\ HookIdle
  /\ input \in ValidationInputs
  /\ serverVerdict = None
  /\ clientVerdict = None

\* ReconnaissanceService.validateTarget(target)
ServerValidate ==
  /\ serverVerdict = None
  /\ serverVerdict' = Some(validateTarget(input))
  /\ UNCHANGED <<input, clientVerdict, pipelineVars, reconVars, mapperVars, publishVars, dnsVars, reportVars, hookVars>>

\* the client's validateTarget(target): isValid iff targetSchema.parse
\* does not throw
ClientValidate ==
  /\ clientVerdict = None
  /\ clientVerdict' = Some(targetSchema(input))
  /\ UNCHANGED <<input, serverVerdict, pipelineVars, reconVars, mapperVars, publishVars, dnsVars, reportVars, hookVars>>

NextValidate ==
  \/ ServerValidate
  \/ ClientValidate

SpecValidate == InitValidate /\ [][NextValidate]_vars

\* C5: the validator rejects the dotted quad 256.1.1.1, whose first octet is
\* above 255, accepts a.example.com, and the server-side and the
\* client-side validator give the same answer on every string.
C5_ValidatorVerdicts ==
  /\ (input = T_BadOctet /\ serverVerdict # None) => serverVerdict = Some(FALSE)
  /\ (input = T_Host /\ serverVerdict # None) => serverVerdict = Some(TRUE)
  /\ (serverVerdict # None /\ clientVerdict # None) => serverVerdict = clientVerdict


\* ------------------------------------------------ reconnaissance: the probes
MaxLabels == 2         \* candidate labels the subdomain sweep tries
MaxPorts == 2          \* candidate ports the port sweep tries

commonSubdomains ==
  <<"www", "mail", "ftp", "admin", "api", "dev", "test", "staging",
    "blog", "shop", "secure", "vpn", "remote", "support", "help", "cdn",
    "static", "media", "assets", "images", "video", "app", "mobile", "beta",
    "alpha", "demo", "portal", "dashboard">>

commonPorts == <<21, 22, 23, 25, 53, 80, 110, 143, 443, 993, 995, 8080, 8443, 3000,
                 3306, 5432, 6379, 27017>>

\* the candidates within the bounds
Labels == SubSeq(commonSubdomains, 1, MaxLabels)
Ports == SubSeq(commonPorts, 1, MaxPorts)

\* enumerateSubdomains: `${sub}.${target}` for every candidate label that
\* resolveDNS resolves, in list order; a label is one symbol of the string
enumerateSubdomains(target, resolving) ==
  LET Active(sub) == sub \in resolving
      active == SelectSeq(Labels, Active)
  IN [k \in 1..Len(active) |-> <<active[k], ".">> \o target]

\* scanPorts: the candidate ports whose checkPort resolved true, in list order
scanPorts(target, open) ==
  LET IsOpen(port) == port \in open
  IN SelectSeq(Ports, IsOpen)

DnsKinds == <<"A", "AAAA", "MX", "TXT", "NS">>

\* getDNSRecords from kind number k on: the first getDNSRecord that rejects
\* leaves the try block
RECURSIVE DnsRecordsFrom(_, _)
DnsRecordsFrom(k, answers) ==
  IF k > Len(DnsKinds) THEN <<>>
  ELSE IF answers[DnsKinds[k]] = None THEN <<>>
  ELSE LET found == answers[DnsKinds[k]][1]
       IN [n \in 1..Len(found) |-> [type |-> DnsKinds[k], value |-> found[n]]]
            \o DnsRecordsFrom(k + 1, answers)

\* ReconnaissanceService.getDNSRecords; answers[kind] is None when the
\* resolver call of that kind fails
getDNSRecords(target, answers) == DnsRecordsFrom(1, answers)

\* what the resolver may answer for each kind
DnsAnswers == [{DnsKinds[k] : k \in 1..Len(DnsKinds)} -> {None, Some(<<"r">>)}]

IsSpace(c) == c \in {" ", "\t"}

\* s.match(/<prefix>([^\s]+)/)?.[1]: the run of non-space characters after the
\* first occurrence of prefix that is followed by one; None without a match
MatchVersion(s, prefix) ==
  LET starts == {i \in 0..Len(s) :
                   /\ i + Len(prefix) + 1 <= Len(s)
                   /\ \A j \in 1..Len(prefix) : s[i + j] = prefix[j]
                   /\ ~IsSpace(s[i + Len(prefix) + 1])}
  IN IF starts = {} THEN None
     ELSE LET i == CHOOSE a \in starts : \A b \in starts : a <= b
              from == i + Len(prefix) + 1
              ends == {e \in from..Len(s) :
                         /\ \A n \in from..e : ~IsSpace(s[n])
                         /\ (e = Len(s) \/ IsSpace(s[e + 1]))}
          IN Some(SubSeq(s, from, CHOOSE e \in ends : TRUE))

S_apache == <<"a", "p", "a", "c", "h", "e">>
S_nginx == <<"n", "g", "i", "n", "x">>
S_iis == <<"i", "i", "s">>
S_php == <<"p", "h", "p">>
S_aspnet == <<"a", "s", "p", ".", "n", "e", "t">>
S_wordpress == <<"w", "o", "r", "d", "p", "r", "e", "s", "s">>
S_drupal == <<"d", "r", "u", "p", "a", "l">>

Tech(name, version, category) == [name |-> name, version |-> version, category |-> category]

\* ReconnaissanceService.detectTechnologies; a header is None when absent
detectTechnologies(headers) ==
  LET server == toLowerCase(headers.server[1])
      poweredBy == toLowerCase(headers.poweredBy[1])
      generator == toLowerCase(headers.generator[1])
      byServer ==
        IF headers.server = None \/ headers.server[1] = <<>> THEN <<>>
        ELSE IF includes(server, S_apache)
             THEN <<Tech("Apache", MatchVersion(server, S_apache \o <<"/">>), "web_server")>>
        ELSE IF includes(server, S_nginx)
             THEN <<Tech("Nginx", MatchVersion(server, S_nginx \o <<"/">>), "web_server")>>
        ELSE IF includes(server, S_iis)
             THEN <<Tech("IIS", MatchVersion(server, S_iis \o <<"/">>), "web_server")>>
        ELSE <<>>
      byFramework ==
        IF headers.poweredBy = None \/ headers.poweredBy[1] = <<>> THEN <<>>
        ELSE IF includes(poweredBy, S_php)
             THEN <<Tech("PHP", MatchVersion(poweredBy, S_php \o <<"/">>), "framework")>>
        ELSE IF includes(poweredBy, S_aspnet)
             THEN <<Tech("ASP.NET", None, "framework")>>
        ELSE <<>>
      byGenerator ==
        IF headers.generator = None \/ headers.generator[1] = <<>> THEN <<>>
        ELSE IF includes(generator, S_wordpress)
             THEN <<Tech("WordPress", None, "cms")>>
        ELSE IF includes(generator, S_drupal)
             THEN <<Tech("Drupal", None, "cms")>>
        ELSE <<>>
  IN byServer \o byFramework \o byGenerator

\* the headers of a response: server, x-powered-by, x-generator
Headers(server, poweredBy, generator) ==
  [server |-> server, poweredBy |-> poweredBy, generator |-> generator]

\* {}: the headers field of a fresh ReconResults
NoHeaders == Headers(None, None, None)

H_Apache == <<"A", "p", "a", "c", "h", "e", "/", "2", ".", "4", " ", "(", "U", "n", "i", "x", ")">>
H_Php == <<"P", "H", "P", "/", "8", ".", "1">>
H_Nginx == <<"n", "g", "i", "n", "x">>
H_WordPress == <<"W", "o", "r", "d", "P", "r", "e", "s", "s", " ", "6">>

HeaderSamples ==
  {NoHeaders,
   Headers(Some(H_Apache), Some(H_Php), None),
   Headers(Some(H_Nginx), None, Some(H_WordPress))}

\* a response the target may give: its headers and res.statusCode
Responses == [headers : HeaderSamples, statusCode : {200}]

\* getWebInfo: the HTTPS response if there is one, else the HTTP response;
\* None when both requests fail and the promise rejects
getWebInfo(https, http) ==
  IF https # None
  THEN Some([headers |-> https[1].headers,
             statusCode |-> https[1].statusCode,
             technologies |-> detectTechnologies(https[1].headers),
             certificates |-> Some("peerCertificate")])
  ELSE IF http # None
  THEN Some([headers |-> http[1].headers,
             statusCode |-> http[1].statusCode,
             technologies |-> detectTechnologies(http[1].headers),
             certificates |-> None])
  ELSE None

\* String.prototype.trim
RECURSIVE TrimLeft(_)
TrimLeft(s) == IF s # <<>> /\ IsSpace(Head(s)) THEN TrimLeft(Tail(s)) ELSE s
RECURSIVE TrimRight(_)
TrimRight(s) ==
  IF s # <<>> /\ IsSpace(s[Len(s)]) THEN TrimRight(SubSeq(s, 1, Len(s) - 1)) ELSE s
trim(s) == TrimRight(TrimLeft(s))

\* parseWhoisData after the lines up to number n: a line is split at its
\* first colon; key and value must both be non-empty
RECURSIVE WhoisFrom(_, _)
WhoisFrom(lines, n) ==
  IF n = 0 THEN <<>>
  ELSE LET data == WhoisFrom(lines, n - 1)
           line == lines[n]
           colons == {i \in 1..Len(line) : line[i] = ":"}
       IN IF colons = {} THEN data
          ELSE LET c == CHOOSE a \in colons : \A b \in colons : a <= b
                   key == SubSeq(line, 1, c - 1)
                   value == trim(SubSeq(line, c + 1, Len(line)))
                   name == toLowerCase(trim(key))
               IN IF key = <<>> \/ value = <<>> THEN data
                  ELSE SelectSeq(data, LAMBDA e : e.key # name)
                         \o <<[key |-> name, value |-> value]>>

\* ReconnaissanceService.parseWhoisData: the map as its entries
parseWhoisData(lines) == WhoisFrom(lines, Len(lines))

W_Name == <<"N", "a", "m", "e", ":", " ", "X">>
W_NoColon == <<"n", "o">>
W_NoValue == <<"E", ":">>

\* what the whois command may print, as lines
WhoisOutputs == {<<W_NoColon>>, <<W_Name, W_NoColon, W_NoValue>>}

\* getWhoisData: the parsed output, or null (None) when the command fails
getWhoisData(stdout) ==
  IF stdout = None THEN None ELSE Some(parseWhoisData(stdout[1]))


\* ------------------------------------------ reconnaissance: DNS collection
\* getDNSRecords called on its own, for every combination of resolver answers
MaxDnsRecords == 1

\* what the resolver may answer for one kind: an error, or up to
\* MaxDnsRecords records
DnsAnswerSamples ==
  [{DnsKinds[k] : k \in 1..Len(DnsKinds)} ->
     {None} \cup {Some([n \in 1..m |-> n]) : m \in 0..MaxDnsRecords}]

InitDns ==
  /\ PipelineInit
  /\ ValidationIdle
  /\ ReconIdle
  /\ MapperIdle
  /\ PublishIdle
  /\ ReportIdle
  /\ HookIdle
  /\ dnsAnswers \in DnsAnswerSamples
  /\ dnsReturned = None

\* await this.getDNSRecords(target): the call returns its list
CallGetDNSRecords ==
  /\ dnsReturned = None
  /\ dnsReturned' = Some(getDNSRecords(T_Host, dnsAnswers))
  /\ UNCHANGED <<dnsAnswers, pipelineVars, validationVars, reconVars, mapperVars, publishVars,
                 reportVars, hookVars>>

SpecDns == InitDns /\ [][CallGetDNSRecords]_vars

\* the records of kind number k on, of every kind whose resolver call succeeds
RECURSIVE RecordsOfSucceedingKinds(_, _)
RecordsOfSucceedingKinds(k, answers) ==
  IF k > Len(DnsKinds) THEN <<>>
  ELSE (IF answers[DnsKinds[k]] = None THEN <<>>
        ELSE [n \in 1..Len(answers[DnsKinds[k]][1]) |->
                [type |-> DnsKinds[k], value |-> answers[DnsKinds[k]][1][n]]])
       \o RecordsOfSucceedingKinds(k + 1, answers)

\* C25: whatever kinds fail, the list getDNSRecords returns holds the records
\* of every kind whose resolver call succeeds, in the order A, AAAA, MX, TXT,
\* NS.
C25_DnsKindsIndependent ==
  dnsReturned # None => dnsReturned[1] = RecordsOfSucceedingKinds(1, dnsAnswers)


\* ---------------------------------------------- reconnaissance: the fan-out
\* const results: ReconResults = {target, subdomains: [], openPorts: [], ...}
NewResults(target) ==
  [target |-> target, subdomains |-> <<>>, openPorts |-> <<>>, technologies |-> <<>>,
   dnsRecords |-> <<>>, headers |-> NoHeaders, whoisData |-> None,
   statusCode |-> None, certificates |-> None]

Pending == [status |-> "pending", value |-> None]
Fulfilled(v) == [status |-> "fulfilled", value |-> Some(v)]
Rejected == [status |-> "rejected", value |-> None]

\* Promise.all in the place of Promise.allSettled: the await ends at the first
\* rejection
PromiseAll(ps) ==
  \/ \A p \in ProbeNames : ps[p].status = "fulfilled"
  \/ \E p \in ProbeNames : ps[p].status = "rejected"

\* await Promise.allSettled([...]) ends when every promise has settled
allSettled(ps) == \A p \in ProbeNames : ps[p].status \in {"fulfilled", "rejected"}

\* the assembly without the line results.technologies = webInfo.value.technologies
assembleWithoutTechnologies(res, ps) ==
  LET r1 == IF ps.subdomains.status = "fulfilled"
            THEN [res EXCEPT !.subdomains = ps.subdomains.value[1]] ELSE res
      r2 == IF ps.openPorts.status = "fulfilled"
            THEN [r1 EXCEPT !.openPorts = ps.openPorts.value[1]] ELSE r1
      r3 == IF ps.dnsRecords.status = "fulfilled"
            THEN [r2 EXCEPT !.dnsRecords = ps.dnsRecords.value[1]] ELSE r2
      r4 == IF ps.webInfo.status = "fulfilled"
            THEN [r3 EXCEPT !.headers = ps.webInfo.value[1].headers,
                            !.statusCode = Some(ps.webInfo.value[1].statusCode),
                            !.certificates = ps.webInfo.value[1].certificates]
            ELSE r3
  IN IF ps.whoisData.status = "fulfilled"
     THEN [r4 EXCEPT !.whoisData = Some(ps.whoisData.value[1])] ELSE r4

\* performReconnaissance after the await: each fulfilled outcome is copied
\* into its fields of results
assemble(res, ps) ==
  LET r1 == IF ps.subdomains.status = "fulfilled"
            THEN [res EXCEPT !.subdomains = ps.subdomains.value[1]] ELSE res
      r2 == IF ps.openPorts.status = "fulfilled"
            THEN [r1 EXCEPT !.openPorts = ps.openPorts.value[1]] ELSE r1
      r3 == IF ps.dnsRecords.status = "fulfilled"
            THEN [r2 EXCEPT !.dnsRecords = ps.dnsRecords.value[1]] ELSE r2
      r4 == IF ps.webInfo.status = "fulfilled"
            THEN [r3 EXCEPT !.headers = ps.webInfo.value[1].headers,
                            !.statusCode = Some(ps.webInfo.value[1].statusCode),
                            !.technologies = ps.webInfo.value[1].technologies,
                            !.certificates = ps.webInfo.value[1].certificates]
            ELSE r3
  IN IF ps.whoisData.status = "fulfilled"
     THEN [r4 EXCEPT !.whoisData = Some(ps.whoisData.value[1])] ELSE r4

\* targets performReconnaissance is called with
ReconTargets == {T_Host, T_Hyphen}

InitRecon ==
  /\ PipelineInit
  /\ ValidationIdle
  /\ MapperIdle
  /\ PublishIdle
  /\ DnsIdle
  /\ ReportIdle
  /\ HookIdle
  /\ rTarget \in ReconTargets
  /\ rpc = "start"
  /\ probe = [p \in ProbeNames |-> [status |-> "idle", value |-> None]]
  /\ results = None

\* performReconnaissance up to its await: the target is validated, results
\* is created and the five probes are called
StartRecon ==
  /\ rpc = "start"
  /\ UNCHANGED <<rTarget, pipelineVars, validationVars, mapperVars, publishVars, dnsVars, reportVars, hookVars>>
  /\ IF ~validateTarget(rTarget)
     THEN /\ rpc' = "raised"
          /\ UNCHANGED <<probe, results>>
     ELSE /\ rpc' = "awaiting"
          /\ results' = Some(NewResults(rTarget))
          /\ probe' = [p \in ProbeNames |-> Pending]

reconRest == <<rTarget, rpc, results, pipelineVars, validationVars, mapperVars, publishVars, dnsVars, reportVars, hookVars>>

\* enumerateSubdomains settles: it catches every resolution error
SettleSubdomains ==
  /\ probe["subdomains"].status = "pending"
  /\ \E resolving \in SUBSET {Labels[k] : k \in 1..Len(Labels)} :
       probe' = [probe EXCEPT !["subdomains"] =
                   Fulfilled(enumerateSubdomains(rTarget, resolving))]
  /\ UNCHANGED reconRest

\* scanPorts settles: checkPort never rejects
SettlePorts ==
  /\ probe["openPorts"].status = "pending"
  /\ \E open \in SUBSET {Ports[k] : k \in 1..Len(Ports)} :
       probe' = [probe EXCEPT !["openPorts"] = Fulfilled(scanPorts(rTarget, open))]
  /\ UNCHANGED reconRest

\* getDNSRecords settles: it catches the resolver errors
SettleDns ==
  /\ probe["dnsRecords"].status = "pending"
  /\ \E answers \in DnsAnswers :
       probe' = [probe EXCEPT !["dnsRecords"] =
                   Fulfilled(getDNSRecords(rTarget, answers))]
  /\ UNCHANGED reconRest

\* getWebInfo settles: fulfilled by the first response, rejected when the
\* HTTPS and the HTTP request both fail
SettleWeb ==
  /\ probe["webInfo"].status = "pending"
  /\ \E https \in {None} \cup {Some(r) : r \in Responses},
        http \in {None} \cup {Some(r) : r \in Responses} :
       LET info == getWebInfo(https, http)
       IN probe' = [probe EXCEPT !["webInfo"] =
                      IF info = None THEN Rejected ELSE Fulfilled(info[1])]
  /\ UNCHANGED reconRest

\* getWhoisData settles: it catches the failure of the whois command
SettleWhois ==
  /\ probe["whoisData"].status = "pending"
  /\ \E stdout \in {None} \cup {Some(o) : o \in WhoisOutputs} :
       probe' = [probe EXCEPT !["whoisData"] = Fulfilled(getWhoisData(stdout))]
  /\ UNCHANGED reconRest

\* the await of Promise.allSettled ends; results is assembled and returned
ReturnRecon ==
  /\ rpc = "awaiting"
  /\ allSettled(probe)
  /\ results' = Some(assemble(results[1], probe))
  /\ rpc' = "returned"
  /\ UNCHANGED <<rTarget, probe, pipelineVars, validationVars, mapperVars, publishVars, dnsVars, reportVars, hookVars>>

NextRecon ==
  \/ StartRecon
  \/ SettleSubdomains
  \/ SettlePorts
  \/ SettleDns
  \/ SettleWeb
  \/ SettleWhois
  \/ ReturnRecon

SpecRecon == InitRecon /\ [][NextRecon]_vars

\* C6: performReconnaissance calls all five probes and returns only after
\* every one of them has settled; for a valid target it never raises, whatever
\* probe fails and in whatever order the probes settle.
C6_WaitsForAllProbes ==
  /\ rpc \in {"awaiting", "returned"} => \A p \in ProbeNames : probe[p].status # "idle"
  /\ rpc = "returned" => \A p \in ProbeNames : probe[p].status \in {"fulfilled", "rejected"}
  /\ validateTarget(rTarget) => rpc # "raised"

\* performReconnaissance returned although the web fingerprint had failed
C6_Witness ==
  /\ rpc = "returned"
  /\ probe["webInfo"].status = "rejected"

\* C7: in the returned aggregate every field holds the value of its own probe
\* when that probe succeeded and its initial default when it failed.
C7_FieldsFromOwnProbe ==
  rpc = "returned" =>
    LET r == results[1]
        ok(p) == probe[p].status = "fulfilled"
        v(p) == probe[p].value[1]
    IN /\ r.target = rTarget
       /\ r.subdomains = (IF ok("subdomains") THEN v("subdomains") ELSE <<>>)
       /\ r.openPorts = (IF ok("openPorts") THEN v("openPorts") ELSE <<>>)
       /\ r.dnsRecords = (IF ok("dnsRecords") THEN v("dnsRecords") ELSE <<>>)
       /\ r.whoisData = (IF ok("whoisData") THEN Some(v("whoisData")) ELSE None)
       /\ IF ok("webInfo")
          THEN /\ r.headers = v("webInfo").headers
               /\ r.statusCode = Some(v("webInfo").statusCode)
               /\ r.technologies = v("webInfo").technologies
               /\ r.certificates = v("webInfo").certificates
          ELSE /\ r.headers = NoHeaders
               /\ r.statusCode = None
               /\ r.technologies = <<>>
               /\ r.certificates = None

\* the web fingerprint failed, the other probes found subdomains, open ports,
\* DNS records and registry data, and the aggregate has been returned
C7_Witness ==
  /\ rpc = "returned"
  /\ probe["webInfo"].status = "rejected"
  /\ results[1].subdomains # <<>>
  /\ results[1].openPorts # <<>>
  /\ results[1].dnsRecords # <<>>
  /\ results[1].whoisData # None
  /\ results[1].whoisData # Some(None)

\* C28: the registry lookup never raises, and what it yields is a key/value
\* map, the empty one when the whois command fails: its promise is never
\* rejected and never fulfilled with null.
C28_WhoisFailureYieldsEmptyMap ==
  /\ probe["whoisData"].status # "rejected"
  /\ probe["whoisData"].status = "fulfilled" => probe["whoisData"].value[1] # None

\* ------------------------------------------- the technique mapper, call by call
\* vulnerability types and severity tags handed to the mapper
Ty_Sql == <<"S", "Q", "L", " ", "I", "n", "j", "e", "c", "t", "i", "o", "n">>
Ty_Xss == <<"R", "e", "f", "l", "e", "c", "t", "e", "d", " ", "x", "s", "s">>
Ty_Force == <<"B", "r", "u", "t", "e", " ", "F", "o", "r", "c", "e">>
Ty_PrivEsc ==
  <<"P", "r", "i", "v", "i", "l", "e", "g", "e", " ", "E", "s", "c", "a", "l", "a",
    "t", "i", "o", "n">>
Ty_Port == <<"O", "p", "e", "n", " ", "P", "o", "r", "t">>
Ty_ServicePort ==
  <<"E", "x", "p", "o", "s", "e", "d", " ", "S", "e", "r", "v", "i", "c", "e", " ",
    "P", "o", "r", "t">>
Ty_All ==
  <<"X", "S", "S", " ", "a", "n", "d", " ", "p", "r", "i", "v", "i", "l", "e", "g",
    "e", " ", "e", "s", "c", "a", "l", "a", "t", "i", "o", "n", " ", "i", "n", " ",
    "s", "e", "r", "v", "i", "c", "e">>
Ty_None ==
  <<"M", "i", "s", "c", "o", "n", "f", "i", "g", "u", "r", "a", "t", "i", "o", "n">>
TypeSamples == {Ty_Sql, Ty_Xss, Ty_Force, Ty_PrivEsc, Ty_Port, Ty_ServicePort, Ty_All, Ty_None}

Sv_Critical == <<"c", "r", "i", "t", "i", "c", "a", "l">>
Sv_High == <<"H", "i", "g", "h">>
Sv_Medium == <<"M", "E", "D", "I", "U", "M">>
Sv_Low == <<"l", "o", "w">>
Sv_Info == <<"i", "n", "f", "o">>
Sv_Empty == <<>>
SeveritySamples == {Sv_Critical, Sv_High, Sv_Medium, Sv_Low, Sv_Info, Sv_Empty}

\* the (type, severity) pairs studied: every type with one severity, and every
\* severity with a type that matches a rule and one that matches none
StudiedContents ==
  {<<t, Sv_High>> : t \in TypeSamples}
    \cup {<<t, sv>> : t \in {Ty_Sql, Ty_None}, sv \in SeveritySamples}

O_Error == [kind |-> "error", answer |-> A_Empty]
O_Unparseable == [kind |-> "unparseable", answer |-> A_Empty]
O_Full == [kind |-> "parsed", answer |-> AiAnswer(<<[techniqueId |-> "T1059", confidence |-> 60]>>)]
O_EmptyObject == [kind |-> "parsed", answer |-> A_Empty]
O_NoMappings == [kind |-> "parsed", answer |-> A_NoMappings]

\* another vulnerability, mapped between the calls under study
V_Other == [id |-> 3, type |-> Ty_Port, severity |-> Sv_Low]

\* the calls followed: the studied content as vulnerability 1 under every
\* provider outcome, the same content as vulnerability 2 with the provider
\* failing, and the other vulnerability
MapperCalls(t, sv) ==
  {[vulnerability |-> [id |-> 1, type |-> t, severity |-> sv], outcome |-> o] :
     o \in {O_Error, O_Unparseable, O_Full, O_EmptyObject, O_NoMappings}}
    \cup {[vulnerability |-> [id |-> 2, type |-> t, severity |-> sv], outcome |-> o] :
            o \in {O_Error, O_Unparseable}}
    \cup {[vulnerability |-> V_Other, outcome |-> o] : o \in {O_Error, O_Full}}

InitMapper ==
  /\ PipelineInit
  /\ ValidationIdle
  /\ ReconIdle
  /\ PublishIdle
  /\ DnsIdle
  /\ ReportIdle
  /\ HookIdle
  /\ calls = <<>>
  /\ \E c \in StudiedContents :
       /\ mType = c[1]
       /\ mSeverity = c[2]

\* one call of mitreAttackService.analyzeVulnerabilityForMitre(vulnerability)
CallMapper ==
  /\ Len(calls) < MaxCalls
  /\ \E c \in MapperCalls(mType, mSeverity) :
       calls' = Append(calls,
                  [vulnerability |-> c.vulnerability,
                   outcome |-> c.outcome,
                   result |-> analyzeVulnerabilityForMitre(c.vulnerability, c.outcome)])
  /\ UNCHANGED <<mType, mSeverity, pipelineVars, validationVars, reconVars, publishVars, dnsVars, reportVars, hookVars>>

NextMapper == CallMapper

SpecMapper == InitMapper /\ [][NextMapper]_vars

\* the provider call failed: by a call error or timeout, by text that is no
\* JSON, or by a parsed answer that lacks a field of the response schema
ProviderFailed(o) ==
  \/ o.kind \in {"error", "unparseable"}
  \/ o.answer.mappings = None
  \/ o.answer.attackPath = None
  \/ o.answer.riskAssessment = None

\* C12: whenever the provider call fails, by call error, timeout or
\* schema-invalid output, the result of analyzeVulnerabilityForMitre is the
\* local fallback mapping of that vulnerability, and no result lacks mappings.
C12_FallbackOnProviderFailure ==
  \A k \in 1..Len(calls) :
    /\ calls[k].result.mappings # None
    /\ ProviderFailed(calls[k].outcome) =>
         LET f == getFallbackMapping(calls[k].vulnerability)
         IN /\ calls[k].result.mappings = Some(f.mappings)
            /\ calls[k].result.attackPath = Some(f.attackPath)
            /\ calls[k].result.riskAssessment = Some(f.riskAssessment)


\* the provider call raised, so the catch block of
\* analyzeVulnerabilityForMitre ran
Raising(o) == o.kind \in {"error", "unparseable"}

M_T1190 == [techniqueId |-> "T1190", confidence |-> 85]
M_T1068 == [techniqueId |-> "T1068", confidence |-> 80]
M_T1021 == [techniqueId |-> "T1021", confidence |-> 70]

\* what the three rules of the claim give for each type studied
RuleMappings(type) ==
  CASE type = Ty_Sql -> <<M_T1190>>
    [] type = Ty_Xss -> <<M_T1190>>
    [] type = Ty_Force -> <<M_T1190>>          \* "brute force" contains "rce"
    [] type = Ty_PrivEsc -> <<M_T1068>>
    [] type = Ty_Port -> <<M_T1021>>
    [] type = Ty_ServicePort -> <<M_T1021>>    \* one mapping for the rule
    [] type = Ty_All -> <<M_T1190, M_T1068, M_T1021>>
    [] type = Ty_None -> <<>>

\* C16: the fallback emits one mapping per matching rule, in rule order and
\* whatever the letter case: T1190 at 85 for "sql injection", "xss" or "rce",
\* T1068 at 80 for "privilege escalation", T1021 at 70 for "service" or
\* "port"; attackPath is the techniqueIds of the mappings; no match gives
\* empty mappings and an empty attackPath.
C16_FallbackRules ==
  \A k \in 1..Len(calls) :
    Raising(calls[k].outcome) =>
      LET expected == RuleMappings(calls[k].vulnerability.type)
      IN /\ calls[k].result.mappings = Some(expected)
         /\ calls[k].result.attackPath =
              Some([n \in 1..Len(expected) |-> expected[n].techniqueId])

\* a type that matches the three rules, and a type that matches none
C16_Witness ==
  \E a, b \in 1..Len(calls) :
    /\ Raising(calls[a].outcome)
    /\ Raising(calls[b].outcome)
    /\ calls[a].vulnerability.type = Ty_All
    /\ Len(calls[a].result.mappings[1]) = 3
    /\ calls[b].vulnerability.type = Ty_Port

\* the score the claim gives to each severity tag studied
SeverityTable(severity) ==
  CASE severity = Sv_Critical -> 95
    [] severity = Sv_High -> 80
    [] severity = Sv_Medium -> 60
    [] severity = Sv_Low -> 30
    [] severity = Sv_Info -> 50
    [] severity = Sv_Empty -> 50

\* C17: in the fallback the risk assessment depends on the severity tag only:
\* score 95, 80, 60, 30 for critical, high, medium, low in any letter case
\* and 50 otherwise; likelihood is 0.8 x score, impact is score, overall is
\* 0.9 x score (in tenths: 8, 10 and 9 times the score).
C17_FallbackRisk ==
  \A k \in 1..Len(calls) :
    Raising(calls[k].outcome) =>
      LET score == SeverityTable(calls[k].vulnerability.severity)
      IN calls[k].result.riskAssessment =
           Some([likelihood |-> 8 * score, impact |-> 10 * score, overall |-> 9 * score])

\* a medium vulnerability whose type matches no rule, and a low one whose
\* type matches a rule
C17_Witness ==
  \E a, b \in 1..Len(calls) :
    /\ Raising(calls[a].outcome)
    /\ calls[a].vulnerability.severity = Sv_Medium
    /\ calls[a].vulnerability.type = Ty_None
    /\ calls[a].result.riskAssessment[1].overall = 540
    /\ Raising(calls[b].outcome)
    /\ calls[b].vulnerability = V_Other


\* ------------------------------------------- the broadcaster, socket by socket
\* a forEach that ends at the first entry that is not OPEN
RecipientsUntilClosed(cs) ==
  {k \in 1..Len(cs) : \A n \in 1..k : cs[n].readyState = "OPEN"}

\* clients.forEach((client) => { if (client.readyState === WebSocket.OPEN) ... }):
\* the entries client.send is called for, by position in the Map
Recipients(cs) == {k \in 1..Len(cs) : cs[k].readyState = "OPEN"}

\* the ids registered with an OPEN socket, and with a socket that is not OPEN
OpenIds == {clients[k].id : k \in {n \in 1..Len(clients) : clients[n].readyState = "OPEN"}}
NotOpenIds == {clients[k].id : k \in {n \in 1..Len(clients) : clients[n].readyState # "OPEN"}}

InitBroadcast ==
  /\ PipelineInit
  /\ ValidationIdle
  /\ ReconIdle
  /\ MapperIdle
  /\ PublishIdle
  /\ DnsIdle
  /\ ReportIdle
  /\ HookIdle

\* one call of broadcastUpdate, which runs to its end without yielding:
\* client.send is called for the OPEN entries in insertion order; when the
\* send at position r raises (r = 0: none does), the exception leaves forEach
\* and broadcastUpdate, and the entries after r are not reached.  The Map is
\* not changed.
BroadcastUpdate ==
  /\ NumPublished < MaxPublishes
  /\ \E r \in {0} \cup Recipients(clients) :
       LET n == NumPublished + 1
           sent == {k \in Recipients(clients) : r = 0 \/ k < r}
           sentIds == {clients[k].id : k \in sent}
       IN /\ received' = [c \in ObserverIds |-> IF c \in sentIds THEN <<n>> ELSE <<>>]
          /\ UNCHANGED inbox
          /\ published' =
               <<[n |-> n,
                  before |-> LastOpen,
                  open |-> OpenIds,
                  notOpen |-> NotOpenIds,
                  sendError |-> IF r = 0 THEN 0 ELSE clients[r].id,
                  raised |-> r # 0,
                  registryAfter |-> Registered]>>
  /\ UNCHANGED <<pipelineVars, validationVars, reconVars, mapperVars, dnsVars, reportVars, hookVars>>

NextBroadcast ==
  \/ \E c \in ObserverIds : Connect(c)
  \/ \E c \in ObserverIds : SocketClosed(c)
  \/ \E c \in ObserverIds : CloseHandler(c)
  \/ BroadcastUpdate

SpecBroadcast == InitBroadcast /\ [][NextBroadcast]_vars

\* how many times message n was sent to socket c
Deliveries(c, n) == Cardinality({i \in 1..Len(received[c]) : received[c][i] = n})

\* C18: every call of broadcastUpdate returns without raising, also when the
\* send to one socket fails, and delivers its message exactly once to every
\* socket that was registered and OPEN at the call, the failing one excepted.
C18_PublishReachesEveryOpenObserver ==
  \A k \in 1..Len(published) :
    /\ ~published[k].raised
    /\ \A c \in published[k].open \ {published[k].sendError} :
         Deliveries(c, published[k].n) = 1

\* C19: after a call of broadcastUpdate the Map holds no socket that the
\* call found not OPEN.
C19_ClosedObserversUnregistered ==
  \A k \in 1..Len(published) :
    published[k].registryAfter \cap published[k].notOpen = {}

\* C20: in every interleaving of connections, closes and calls of
\* broadcastUpdate, a call in which no send fails returns without raising and
\* delivers its message exactly once to every socket registered and OPEN at
\* the call, whatever sockets have been closed or unregistered around it.
C20_UnregisterDoesNotDisturbPublish ==
  \A k \in 1..Len(published) :
    published[k].sendError = 0 =>
      /\ ~published[k].raised
      /\ \A c \in published[k].open : Deliveries(c, published[k].n) = 1
      /\ \A c \in ObserverIds \ published[k].open : Deliveries(c, published[k].n) = 0

\* sockets 1 and 2 were OPEN at the first call; socket 1 was then closed and
\* unregistered, and the second message reached socket 2, which stayed OPEN
C20_Witness ==
  /\ published # <<>>
  /\ published[1].n = 2
  /\ published[1].before = {1, 2}
  /\ published[1].open = {2}
  /\ published[1].registryAfter = {2}
  /\ received[2] = <<2>>
  /\ received[1] = <<>>

\* ------------------------------------- the broadcaster, message by message
\* The same sockets and calls, observed by what each socket is sent over its
\* whole life instead of by the latest call.

\* wss.on('connection'): the new socket is registered under a fresh id; it
\* has been sent what the handler sends it, after NumPublished earlier calls
ConnectObserved(c) ==
  /\ c \notin Registered
  /\ clients' = Append(clients, [id |-> c, readyState |-> "OPEN"])
  /\ inbox' = [inbox EXCEPT ![c] = [since |-> NumPublished, log |-> connection(NumPublished)]]
  /\ UNCHANGED <<storageVars, proc, events, numRequests, lastResponse>>
  /\ UNCHANGED <<received, published>>
  /\ UNCHANGED <<validationVars, reconVars, mapperVars, dnsVars, reportVars, hookVars>>

\* one call of broadcastUpdate: message n goes to the OPEN entries in
\* insertion order, up to the entry whose send raises, if one does
BroadcastObserved ==
  /\ NumPublished < MaxPublishes
  /\ \E r \in {0} \cup Recipients(clients) :
       LET n == NumPublished + 1
           sentIds == {clients[k].id : k \in {m \in Recipients(clients) : r = 0 \/ m < r}}
       IN /\ inbox' = [c \in ObserverIds |->
                         IF c \in sentIds
                           THEN [inbox[c] EXCEPT !.log = Append(@, n)]
                           ELSE inbox[c]]
          /\ published' = <<[n |-> n]>>
  /\ UNCHANGED received
  /\ UNCHANGED <<pipelineVars, validationVars, reconVars, mapperVars, dnsVars, reportVars, hookVars>>

NextDelivery ==
  \/ \E c \in ObserverIds : ConnectObserved(c)
  \/ \E c \in ObserverIds : SocketClosed(c)
  \/ \E c \in ObserverIds : CloseHandler(c)
  \/ BroadcastObserved

SpecDelivery == InitBroadcast /\ [][NextDelivery]_vars

\* C21: there is no replay.  A socket is never sent a message published
\* before it registered, it is sent each message at most once, and the
\* messages it is sent arrive in the order of their publication.
C21_NoReplayInOrder ==
  \A c \in ObserverIds :
    LET log == inbox[c].log
    IN /\ \A i \in 1..Len(log) : inbox[c].since < log[i] /\ log[i] <= NumPublished
       /\ \A i, j \in 1..Len(log) : i < j => log[i] < log[j]

\* socket 2 registered after the first message was published: it was sent the
\* second message only, while socket 1 was sent both, in order
C21_Witness ==
  /\ inbox[1] = [since |-> 0, log |-> <<1, 2>>]
  /\ inbox[2] = [since |-> 1, log |-> <<2>>]


\* ------------------------------------------------- the MITRE loop of a scan
\* the vulnerabilities found persisted when the loop starts: one whose
\* fallback mapping has one technique and one whose fallback has three
LoopVulnSamples ==
  {V_Xss, [severity |-> Sv_High, type |-> Ty_All]}

\* performScan right after its broadcast of progress 90, for a scan whose
\* earlier stages went through: the row is running, the vulnerabilities of
\* the analysis are persisted, getVulnerabilitiesByScan is about to be called
InitLoop ==
  /\ ValidationIdle
  /\ ReconIdle
  /\ MapperIdle
  /\ PublishIdle
  /\ DnsIdle
  /\ ReportIdle
  /\ HookIdle
  /\ clients = <<>>
  /\ numRequests = 1
  /\ lastResponse = 200
  /\ subdomainRows = <<>>
  /\ technologyRows = <<>>
  /\ mappingRows = <<>>
  /\ scans = <<[NewScan(T_Host, <<"f", "u", "l", "l">>) EXCEPT !.status = "running"]>>
  /\ \E vs \in SeqsUpTo(LoopVulnSamples, MaxLoopVulns) :
       /\ vulnerabilityRows = [k \in 1..Len(vs) |->
                                 [id |-> k, scanId |-> 1,
                                  severity |-> vs[k].severity, type |-> vs[k].type]]
       /\ proc = <<[NewProc(T_Host) EXCEPT
                      !.pc = "getVulnerabilities",
                      !.reconResults = Some([subdomains |-> <<>>, technologies |-> <<>>]),
                      !.vulnerabilityAnalysis =
                         Some([riskScore |-> Some(25), vulnerabilities |-> Some(vs)])]>>
  /\ events = <<[k \in 1..6 |->
                   Ev("running",
                      Some(Checkpoint(<<"running", "recon", "subdomains", "technologies",
                                        "analyze", "mitre">>[k])),
                      "progress", None)]>>

NextLoop ==
  \/ \E id \in ScanIds : GetVulnerabilities(id)
  \/ \E id \in ScanIds : MitreAnalyze(id)
  \/ \E id \in ScanIds : MitreStore(id)
  \/ \E id \in ScanIds : UpdateCompleted(id)
  \/ \E id \in ScanIds : CatchUpdate(id)

SpecLoop == InitLoop /\ [][NextLoop]_vars

\* performScan is inside the try block of its MITRE loop
InMitreLoop(id) == At(id, "mitreAnalyze") \/ At(id, "mitreStore")

\* the ids of the vulnerabilities persisted for the scan, in table order
PersistedIds(id) ==
  LET vs == getVulnerabilitiesByScan(id)
  IN [k \in 1..Len(vs) |-> vs[k].id]

\* C13: no step of the MITRE loop takes performScan to its catch block or
\* changes the stored status of the scan, and when the loop is over the
\* mapper has been called once for every persisted vulnerability of the
\* scan, in order, whatever mapping or mapping write failed before.
C13_MappingFailuresIsolated ==
  [][\A id \in DOMAIN proc :
       /\ InMitreLoop(id) =>
            /\ proc'[id].pc \in {"mitreAnalyze", "mitreStore", "updateCompleted"}
            /\ scans'[id].status = scans[id].status
       /\ (InMitreLoop(id) /\ proc'[id].pc = "updateCompleted") =>
            proc'[id].attempted = PersistedIds(id)]_vars

\* a completed scan with two vulnerabilities: the mapping of the first
\* failed, the second was mapped and its mapping stored
C13_Witness ==
  \E id \in DOMAIN scans :
    /\ scans[id].status = "completed"
    /\ proc[id].attempted = <<1, 2>>
    /\ proc[id].failedMappings = {1}
    /\ \E k \in 1..Len(mappingRows) : mappingRows[k].vulnerabilityId = 2

\* C14: a vulnerability whose technique mapping failed (the analysis or one
\* of its mapping writes raised) has no TechniqueMapping row.
C14_FailedMappingLeavesNoRows ==
  \A id \in DOMAIN proc :
    \A v \in proc[id].failedMappings :
      \A k \in 1..Len(mappingRows) : mappingRows[k].vulnerabilityId # v

\* ------------------------------------------------ the stages of performScan
\* the stage a position of performScan belongs to
StageOf(pc) ==
  CASE pc = "updateRunning" -> 0
    [] pc = "recon" -> 1
    [] pc = "subdomains" -> 2
    [] pc = "technologies" -> 3
    [] pc \in {"analyze", "vulnerabilities"} -> 4
    [] pc \in {"getVulnerabilities", "mitreAnalyze", "mitreStore"} -> 5
    [] pc = "updateCompleted" -> 6
    [] pc = "done" -> 7
    [] OTHER -> 8

\* the number of rows of a table written for the scan
RowsOfScan(rows, id) == Cardinality({k \in 1..Len(rows) : rows[k].scanId = id})

\* the checkpoints announced once performScan is in stage s
Announced(s) ==
  SubSeq(<<0, 25, 50, 65, 80, 90, 100>>, 1,
         CASE s = 0 -> 0 [] s = 1 -> 2 [] s = 2 -> 3 [] s = 3 -> 4
           [] s = 4 -> 5 [] s \in {5, 6} -> 6 [] OTHER -> 7)

\* a performScan that no error has left is in a stage only when the work of
\* every earlier stage is complete: its broadcasts returned, its rows are
\* written, and before the final update every persisted vulnerability of
\* the scan went through one mapping attempt
EarlierStagesComplete(id) ==
  LET p == proc[id]
      s == StageOf(p.pc)
  IN (p.error = Undefined) =>
       /\ s <= 7
       /\ Len(events[id]) = Len(Announced(s))
       /\ \A k \in 1..Len(events[id]) :
            events[id][k].progress = Some(Announced(s)[k]) /\ ~events[id][k].raised
       /\ s >= 1 => scans[id].status # "pending"
       /\ s >= 2 => p.reconResults # None
       /\ s <= 1 => RowsOfScan(subdomainRows, id) = 0
       /\ s >= 3 => RowsOfScan(subdomainRows, id) = Len(p.reconResults[1].subdomains)
       /\ s <= 2 => RowsOfScan(technologyRows, id) = 0
       /\ s >= 4 => RowsOfScan(technologyRows, id) = Len(p.reconResults[1].technologies)
       /\ (s <= 3 \/ p.pc = "analyze") => RowsOfScan(vulnerabilityRows, id) = 0
       /\ s >= 5 => RowsOfScan(vulnerabilityRows, id)
                      = Len(p.vulnerabilityAnalysis[1].vulnerabilities[1])
       /\ s <= 4 => mappingRows = <<>> /\ p.attempted = <<>>
       /\ s >= 6 =>
            /\ Len(p.attempted) = RowsOfScan(vulnerabilityRows, id)
            /\ \A k \in 1..Len(vulnerabilityRows) :
                 vulnerabilityRows[k].scanId = id =>
                   \E n \in 1..Len(p.attempted) : p.attempted[n] = vulnerabilityRows[k].id
       /\ s <= 6 <=> scans[id].status # "completed"

\* C22: the stages of one scan run in the order recon, subdomains,
\* technologies, vulnerabilities, technique mapping, final update, one at a
\* time: performScan moves from a stage to the next one only, a stage starts
\* only when the rows and the broadcast of the stages before it are complete,
\* and the completed row is written only after every mapping attempt.
C22_StagesInOrder ==
  [][\A id \in DOMAIN proc :
       /\ EarlierStagesComplete(id)'
       /\ (proc'[id].error = Undefined) =>
            StageOf(proc'[id].pc) \in {StageOf(proc[id].pc), StageOf(proc[id].pc) + 1}
       /\ (scans'[id].status = "completed" /\ scans[id].status # "completed") =>
            /\ proc[id].pc = "updateCompleted"
            /\ mappingRows' = mappingRows]_vars

\* a completed scan that wrote a row in every stage
C22_Witness ==
  \E id \in DOMAIN scans :
    /\ scans[id].status = "completed"
    /\ proc[id].pc = "done"
    /\ RowsOfScan(subdomainRows, id) = 1
    /\ RowsOfScan(technologyRows, id) = 1
    /\ RowsOfScan(vulnerabilityRows, id) = 1
    /\ mappingRows # <<>>
    /\ proc[id].attempted = <<1>>

\* ------------------------------------------------ termination of performScan
\* one step of the performScan of scan id: the call it awaits returns or raises
PerformScanStep(id) ==
  \/ UpdateRunning(id)
  \/ Recon(id)
  \/ StoreSubdomain(id)
  \/ StoreTechnology(id)
  \/ Analyze(id)
  \/ StoreVulnerability(id)
  \/ GetVulnerabilities(id)
  \/ MitreAnalyze(id)
  \/ MitreStore(id)
  \/ UpdateCompleted(id)
  \/ CatchUpdate(id)

\* every probe, inference, storage and broadcast call that performScan awaits
\* eventually returns or raises: the event loop resumes a performScan whose
\* awaited promise has settled
SpecFair == Init /\ [][Next]_vars /\ \A id \in ScanIds : WF_vars(PerformScanStep(id))

\* C23: when every awaited call eventually returns or raises, every accepted
\* scan eventually has stored status completed or failed.
C23_EveryScanTerminates ==
  \A id \in ScanIds :
    (id \in DOMAIN scans) ~> (id \in DOMAIN scans /\ scans[id].status \in Terminal)

\* -------------------------------------------------------- concurrent scans
\* Two accepted scans whose performScan calls run interleaved at every await.
ConcurrentScans == {1, 2}

\* the server after two POST /api/scans were answered: two pending rows, two
\* performScan calls at their first await, no observer connected
InitConcurrent ==
  /\ ValidationIdle
  /\ ReconIdle
  /\ MapperIdle
  /\ PublishIdle
  /\ DnsIdle
  /\ ReportIdle
  /\ HookIdle
  /\ clients = <<>>
  /\ scans = [id \in ConcurrentScans |-> NewScan(T_Host, <<"f", "u", "l", "l">>)]
  /\ proc = [id \in ConcurrentScans |-> NewProc(T_Host)]
  /\ events = [id \in ConcurrentScans |-> <<>>]
  /\ subdomainRows = <<>>
  /\ technologyRows = <<>>
  /\ vulnerabilityRows = <<>>
  /\ mappingRows = <<>>
  /\ numRequests = 2
  /\ lastResponse = 200

NextConcurrent == \E id \in ConcurrentScans : PerformScanStep(id)

SpecConcurrent == InitConcurrent /\ [][NextConcurrent]_vars

\* the rows a step appended to a table
Appended(rows, rowsAfter) == {rowsAfter[k] : k \in (Len(rows) + 1)..Len(rowsAfter)}

\* a step kept the rows a table had
Kept(rows, rowsAfter) ==
  Len(rows) <= Len(rowsAfter) /\ \A k \in 1..Len(rows) : rowsAfter[k] = rows[k]

\* C24: with the steps of several scans interleaved at every await, a step of
\* one scan leaves the row, the events and the locals of every other scan as
\* they are, the Subdomain, Technology and Vulnerability rows it writes
\* carry its own scan id, the TechniqueMapping rows it writes reference a
\* vulnerability of its own scan, and the vulnerabilities it reads are its own.
C24_ScansIsolated ==
  [][\A id \in DOMAIN proc :
       (proc'[id] # proc[id]) =>
         /\ \A o \in DOMAIN proc \ {id} :
              scans'[o] = scans[o] /\ events'[o] = events[o] /\ proc'[o] = proc[o]
         /\ Kept(subdomainRows, subdomainRows') /\ Kept(technologyRows, technologyRows')
         /\ Kept(vulnerabilityRows, vulnerabilityRows') /\ Kept(mappingRows, mappingRows')
         /\ \A r \in Appended(subdomainRows, subdomainRows') : r.scanId = id
         /\ \A r \in Appended(technologyRows, technologyRows') : r.scanId = id
         /\ \A r \in Appended(vulnerabilityRows, vulnerabilityRows') : r.scanId = id
         /\ \A r \in Appended(mappingRows, mappingRows') :
              \E k \in 1..Len(vulnerabilityRows) :
                vulnerabilityRows[k].id = r.vulnerabilityId /\ vulnerabilityRows[k].scanId = id
         /\ \A k \in 1..Len(proc'[id].vulnerabilities) :
              proc'[id].vulnerabilities[k].scanId = id]_vars

\* both scans completed after their writes interleaved: the vulnerability of
\* scan 2 was persisted before the one of scan 1, and both were mapped
C24_Witness ==
  /\ \A id \in ConcurrentScans : id \in DOMAIN scans /\ scans[id].status = "completed"
  /\ Len(vulnerabilityRows) = 2
  /\ vulnerabilityRows[1].scanId = 2
  /\ vulnerabilityRows[2].scanId = 1
  /\ \A v \in {1, 2} : \E k \in 1..Len(mappingRows) : mappingRows[k].vulnerabilityId = v

\* --------------------------------------------- the risk score of a finished scan
\* C26: the riskScore carried by the completed event of a scan equals the
\* riskScore stored in the row of that scan.
C26_EventRiskEqualsStored ==
  \A id \in DOMAIN scans :
    \A k \in 1..Len(events[id]) :
      (events[id][k].status = "completed" /\ ~events[id][k].raised) =>
        events[id][k].riskScore = scans[id].riskScore

\* ------------------------------------------------ the completion timestamp
\* C27: in every state of every scan row, completedAt is set exactly when the
\* status is completed or failed: it is null while the scan is pending or
\* running and is written by the update that sets the terminal status.
C27_CompletedAtIffTerminal ==
  \A id \in DOMAIN scans :
    (scans[id].completedAt # Null) <=> (scans[id].status \in Terminal)

\* a scan that went through pending and running and is completed, with its
\* timestamp
C27_Witness ==
  \E id \in DOMAIN scans :
    /\ scans[id].status = "completed"
    /\ scans[id].completedAt = "date"
    /\ proc[id].pc = "done"

\* ---------------------------------------------------------- the MITRE report
MaxResults == 2
MaxResultMappings == 2

\* the technique catalog, by techniqueId and tactic, in the order of the array
MITRE_ATTACK_TECHNIQUES ==
  <<[techniqueId |-> "T1190", tactic |-> "initial-access"],
    [techniqueId |-> "T1189", tactic |-> "initial-access"],
    [techniqueId |-> "T1055", tactic |-> "defense-evasion"],
    [techniqueId |-> "T1021", tactic |-> "lateral-movement"],
    [techniqueId |-> "T1083", tactic |-> "discovery"],
    [techniqueId |-> "T1046", tactic |-> "discovery"],
    [techniqueId |-> "T1071", tactic |-> "command-and-control"],
    [techniqueId |-> "T1059", tactic |-> "execution"],
    [techniqueId |-> "T1543", tactic |-> "persistence"],
    [techniqueId |-> "T1068", tactic |-> "privilege-escalation"]>>

\* MITRE_ATTACK_TECHNIQUES.find(t => t.techniqueId === techniqueId): the
\* first entry with that id, None (undefined) without one
find(techniqueId) ==
  LET hits == {k \in 1..Len(MITRE_ATTACK_TECHNIQUES) :
                 MITRE_ATTACK_TECHNIQUES[k].techniqueId = techniqueId}
  IN IF hits = {} THEN None
     ELSE Some(MITRE_ATTACK_TECHNIQUES[CHOOSE k \in hits : \A n \in hits : k <= n])

\* the technique ids the results of the report are drawn from: two of
\* different tactics and one the catalog does not have
ReportTechniqueIds == {"T1190", "T1068", "T9999"}

\* a MitreAnalysisResult, by the techniqueId of its mappings
ReportResults ==
  {[mappings |-> [k \in 1..Len(ids) |-> [techniqueId |-> ids[k]]]] :
     ids \in SeqsUpTo(ReportTechniqueIds, MaxResultMappings)}

\* the pairs (result, mapping) in the order of the two nested forEach
RECURSIVE VisitOrder(_)
VisitOrder(mappings) ==
  IF mappings = <<>> THEN <<>>
  ELSE [k \in 1..Len(mappings[1].mappings) |->
          [mapping |-> mappings[1], m |-> mappings[1].mappings[k]]]
       \o VisitOrder(Tail(mappings))

\* tacticGroups after the first n visits: the Map as its entries in insertion
\* order; the result itself is pushed to the group of the tactic of m
RECURSIVE tacticGroups(_, _)
tacticGroups(visits, n) ==
  IF n = 0 THEN <<>>
  ELSE LET groups == tacticGroups(visits, n - 1)
           technique == find(visits[n].m.techniqueId)
       IN IF technique = None THEN groups
          ELSE LET tactic == technique[1].tactic
                   at == {k \in 1..Len(groups) : groups[k].tactic = tactic}
               IN IF at = {}
                  THEN Append(groups, [tactic |-> tactic, tacticMappings |-> <<visits[n].mapping>>])
                  ELSE [k \in 1..Len(groups) |->
                          IF k \in at
                          THEN [groups[k] EXCEPT !.tacticMappings = Append(@, visits[n].mapping)]
                          ELSE groups[k]]

\* tacticMappings.flatMap(m => m.mappings.map(mapping => mapping.techniqueId))
RECURSIVE flatMapTechniqueIds(_)
flatMapTechniqueIds(tacticMappings) ==
  IF tacticMappings = <<>> THEN <<>>
  ELSE [k \in 1..Len(tacticMappings[1].mappings) |-> tacticMappings[1].mappings[k].techniqueId]
       \o flatMapTechniqueIds(Tail(tacticMappings))

\* new Set(ids) in iteration order: the first occurrence of every id
uniqueTechniques(ids) ==
  LET First(k) == \A n \in 1..(k - 1) : ids[n] # ids[k]
      firsts == {k \in 1..Len(ids) : First(k)}
      Nth(i) == CHOOSE k \in firsts : Cardinality({n \in firsts : n < k}) = i - 1
  IN [i \in 1..Cardinality(firsts) |-> ids[Nth(i)]]

\* MitreAttackService.generateMitreAttackReport, the "Tactic Coverage" part:
\* one section per entry of tacticGroups, listing the unique technique ids of
\* the results of the group that the catalog has
generateMitreAttackReport(mappings) ==
  LET visits == VisitOrder(mappings)
      groups == tacticGroups(visits, Len(visits))
  IN [g \in 1..Len(groups) |->
        LET InCatalog(id) == find(id) # None
        IN [tactic |-> groups[g].tactic,
            techniques |->
              SelectSeq(uniqueTechniques(flatMapTechniqueIds(groups[g].tacticMappings)),
                        InCatalog)]]

InitReport ==
  /\ PipelineInit
  /\ ValidationIdle
  /\ ReconIdle
  /\ MapperIdle
  /\ PublishIdle
  /\ DnsIdle
  /\ HookIdle
  /\ reportMappings \in SeqsUpTo(ReportResults, MaxResults)
  /\ report = None

\* await mitreAttackService.generateMitreAttackReport(vulnerabilities, mappings)
CallGenerateReport ==
  /\ report = None
  /\ report' = Some(generateMitreAttackReport(reportMappings))
  /\ UNCHANGED <<reportMappings, pipelineVars, validationVars, reconVars, mapperVars,
                 publishVars, dnsVars, hookVars>>

SpecReport == InitReport /\ [][CallGenerateReport]_vars

\* C29: in the report every technique listed under a tactic heading has that
\* tactic in the catalog, every mapped technique of the catalog is listed
\* under its own tactic, and a mapped technique the catalog does not have is
\* listed under no tactic.
C29_ReportGroupsByTactic ==
  report # None =>
    /\ \A g \in 1..Len(report[1]) :
         \A k \in 1..Len(report[1][g].techniques) :
           LET technique == find(report[1][g].techniques[k])
           IN technique # None /\ technique[1].tactic = report[1][g].tactic
    /\ \A r \in 1..Len(reportMappings) :
         \A k \in 1..Len(reportMappings[r].mappings) :
           LET id == reportMappings[r].mappings[k].techniqueId
               technique == find(id)
           IN IF technique # None
              THEN \E g \in 1..Len(report[1]) :
                     /\ report[1][g].tactic = technique[1].tactic
                     /\ \E n \in 1..Len(report[1][g].techniques) :
                          report[1][g].techniques[n] = id
              ELSE \A g \in 1..Len(report[1]) :
                     \A n \in 1..Len(report[1][g].techniques) :
                       report[1][g].techniques[n] # id

\* ------------------------------------------------------ the useWebSocket hook
\* One component that uses the hook: the effect runs once at mount, its
\* cleanup once at unmount.  wsRef.current is the latest socket created.
MaxSockets == 5

\* connect(): const ws = new WebSocket(wsUrl); wsRef.current = ws
connect == Append(sockets, "CONNECTING")

InitHook ==
  /\ PipelineInit
  /\ ValidationIdle
  /\ ReconIdle
  /\ MapperIdle
  /\ PublishIdle
  /\ DnsIdle
  /\ ReportIdle
  /\ HookIdle

hookRest == <<pipelineVars, validationVars, reconVars, mapperVars, publishVars, dnsVars, reportVars>>

\* useEffect(() => { ...; connect(); ... }, []): the effect runs at mount
Mount ==
  /\ mounted = "no"
  /\ mounted' = "mounted"
  /\ sockets' = connect
  /\ UNCHANGED <<reconnectTimers, isConnected, lastMessage, hookRest>>

\* ws.onopen: setIsConnected(true); a state update after unmount is dropped
OnOpen(k) ==
  /\ k \in DOMAIN sockets
  /\ sockets[k] = "CONNECTING"
  /\ sockets' = [sockets EXCEPT ![k] = "OPEN"]
  /\ isConnected' = (IF mounted = "mounted" THEN TRUE ELSE isConnected)
  /\ UNCHANGED <<mounted, reconnectTimers, lastMessage, hookRest>>

\* what a message event may carry: the JSON text of a scan_update of scan 1
\* or 2, or a text that JSON.parse rejects (None)
MessageData == {Some(1), Some(2), None}

\* ws.onmessage: setLastMessage(JSON.parse(event.data)); a parse error is
\* caught and logged
OnMessage(k, data) ==
  /\ k \in DOMAIN sockets
  /\ sockets[k] = "OPEN"
  /\ lastMessage' = (IF data # None /\ mounted = "mounted" THEN data[1] ELSE lastMessage)
  /\ UNCHANGED <<mounted, sockets, reconnectTimers, isConnected, hookRest>>

\* ws.onerror: setIsConnected(false)
OnError(k) ==
  /\ k \in DOMAIN sockets
  /\ sockets[k] \in {"CONNECTING", "OPEN"}
  /\ isConnected' = FALSE
  /\ UNCHANGED <<mounted, sockets, reconnectTimers, lastMessage, hookRest>>

\* the close event of a socket (the connection failed, the server closed
\* it, or close() was called) and ws.onclose: setIsConnected(false);
\* setTimeout(connect, 3000)
OnClose(k) ==
  /\ k \in DOMAIN sockets
  /\ sockets[k] \in {"CONNECTING", "OPEN", "CLOSING"}
  /\ sockets' = [sockets EXCEPT ![k] = "CLOSED"]
  /\ isConnected' = FALSE
  /\ reconnectTimers' = reconnectTimers + 1
  /\ UNCHANGED <<mounted, lastMessage, hookRest>>

\* a reconnect timer fires: connect()
TimerFires ==
  /\ reconnectTimers > 0
  /\ Len(sockets) < MaxSockets
  /\ reconnectTimers' = reconnectTimers - 1
  /\ sockets' = connect
  /\ UNCHANGED <<mounted, isConnected, lastMessage, hookRest>>

\* the cleanup of the effect at unmount: if (wsRef.current)
\* wsRef.current.close(); close() does nothing on a CLOSING or CLOSED socket
Cleanup ==
  /\ mounted = "mounted"
  /\ mounted' = "unmounted"
  /\ sockets' = IF sockets # <<>> /\ sockets[Len(sockets)] \in {"CONNECTING", "OPEN"}
                THEN [sockets EXCEPT ![Len(sockets)] = "CLOSING"]
                ELSE sockets
  /\ UNCHANGED <<reconnectTimers, isConnected, lastMessage, hookRest>>

NextHook ==
  \/ Mount
  \/ \E k \in 1..MaxSockets : OnOpen(k)
  \/ \E k \in 1..MaxSockets, data \in MessageData : OnMessage(k, data)
  \/ \E k \in 1..MaxSockets : OnError(k)
  \/ \E k \in 1..MaxSockets : OnClose(k)
  \/ TimerFires
  \/ Cleanup

SpecHook == InitHook /\ [][NextHook]_vars

\* the sockets that are not CLOSED
Live == {k \in 1..Len(sockets) : sockets[k] # "CLOSED"}

\* C30: for one mounted hook at most one socket is live at a time and a new
\* connection is opened only after the previous socket closed; once the hook
\* is unmounted no connection is opened any more and no reconnect timer is
\* pending.
C30_NoReconnectAfterUnmount ==
  [][/\ Cardinality(Live') <= 1
     /\ Len(sockets') > Len(sockets) => Live = {}
     /\ mounted = "unmounted" => Len(sockets') = Len(sockets)
     /\ mounted' = "unmounted" => reconnectTimers' = 0]_vars

====
